---- MODULE Spec2Model ----
(***************************************************************************)
(* Model of the SysWeaver sandbox ("jail") controller,                     *)
(* src/internal/jail/jail.go.                                              *)
(*                                                                         *)
(* The controller's fields (running, mounts, cmd) are modelled together    *)
(* with the part of the host it acts on: the kernel mount table, the       *)
(* template tree, the confined process.  Every exported operation is one   *)
(* action that executes the whole body it runs under the mutex.  External  *)
(* commands (mount, umount, touch, chroot, process spawn, kill) can fail;  *)
(* their outcome is chosen by the environment through a "plan".            *)
(*                                                                         *)
(* Paths are sequences of path elements, filepath.Join is concatenation.   *)
(***************************************************************************)
EXTENDS Integers, Sequences, FiniteSets, TLC

\* ------------------------------------------------------------------ bounds
MaxStack  == 2   \* mounts stacked on one mount point
MaxLedger == 3   \* ledger entries that may be pending when a Start() is made
MaxFaults == 1   \* failures of external operations in one behaviour
MaxSetups == 3   \* mount setups on a host shared by two controllers
MaxScripts == 2  \* installation scripts of a template
MaxParts == 2    \* partitions of a raw image

\* ------------------------------------------------------------ configuration
ChrootDir    == <<"chroot">>
BuilderPath  == <<"base">>
TemplatePath == <<"tpl">>

Join(a, b) == a \o b

\* the two configurations of extra mount points that are explored
NoMountPoints == <<>>
TwoMountPoints ==
  << [Source |-> <<"host", "data">>, Destination |-> <<"data">>, Type |-> "bind"],
     [Source |-> <<"tmpfs">>, Destination |-> <<"etc", "resolv.conf">>, Type |-> "tmpfs"] >>

\* strings.Contains(targetDir, "."): the path has an element with a dot
DottedNames == {"resolv.conf"}
Dotted(p) == \E i \in 1..Len(p) : p[i] \in DottedNames

specialMounts ==
  << [source |-> <<"proc">>,       target |-> Join(ChrootDir, <<"proc">>),       fstype |-> "proc"],
     [source |-> <<"sys">>,        target |-> Join(ChrootDir, <<"sys">>),        fstype |-> "sysfs"],
     [source |-> <<"dev">>,        target |-> Join(ChrootDir, <<"dev">>),        fstype |-> "devtmpfs"],
     [source |-> <<"dev", "pts">>, target |-> Join(ChrootDir, <<"dev", "pts">>), fstype |-> "devpts"] >>

templateMount == Join(ChrootDir, <<"template">>)
scriptsMount  == Join(ChrootDir, <<"scripts">>)
scriptsSrc    == Join(TemplatePath, <<"scripts">>)

possibleMounts ==
  << Join(ChrootDir, <<"dev", "pts">>), Join(ChrootDir, <<"dev">>),
     Join(ChrootDir, <<"proc">>), Join(ChrootDir, <<"sys">>),
     Join(ChrootDir, <<"template">>), Join(ChrootDir, <<"scripts">>),
     ChrootDir >>

Range(f) == {f[i] : i \in DOMAIN f}

ExtraTargets == {Join(ChrootDir, TwoMountPoints[i].Destination) : i \in 1..Len(TwoMountPoints)}
Targets == Range(possibleMounts) \cup ExtraTargets

\* --------------------------------------------------------------- variables
VARIABLES
  running,      \* Jail.running
  mounts,       \* Jail.mounts, the mount ledger
  cmd,          \* Jail.cmd: "nil", "created" (Process == nil) or "started"
  config,       \* Jail.config: MountPoints, and TmpBase: whether ChrootDir
                \* contains "sysweaver" and its parent contains "tmp"
  proc,         \* the process of Jail.cmd: "none", "alive", "exited", "reaped"
  alive,        \* number of confined processes spawned and not yet waited for
  mtab,         \* kernel mount table: mount point -> stack of "rw"/"ro" mounts
  host,         \* host file system: what exists, contents of the two trees
  op,           \* the last call: its name, the error and the output returned
  log,          \* what the last call wrote to Jail.logWriter
  cmds,         \* the external commands the last call ran, in order
  faults,       \* failures of external operations so far
  pidNamespace, \* Jail.pidNamespace
  uidMappings,  \* Jail.uidMappings
  gidMappings,  \* Jail.gidMappings
  mutex,        \* Jail.mutex: the caller that holds it, or NoHolder
  pc,           \* per caller: "out", "Lock" (blocked in mutex.Lock()) or the
                \* method whose body it is executing
  started,      \* history: the ledger as the last successful Start() left it
  spawned,      \* the processes the last call launched: program and SysProcAttr
  sandboxes,    \* two controllers on one host: running flag and root mounts
  scratchDirs,  \* two controllers on one host: the scratch directories
  build,        \* the build command of cmd/main.go: position, flags, scripts
  loops,        \* the loop devices of the host, as losetup -a lists them
  image         \* CreateRawImage: position, partitions, ranges, deferred calls

vars ==
  <<running, mounts, cmd, config, proc, alive, mtab, host, op, log, cmds, faults,
    pidNamespace, uidMappings, gidMappings, mutex, pc, started, spawned,
    sandboxes, scratchDirs, build, loops, image>>

\* the state a handler works on, and the write-back of its result
World ==
  [running |-> running, mounts |-> mounts, cmd |-> cmd, config |-> config, proc |-> proc,
   alive |-> alive, mtab |-> mtab, host |-> host, log |-> <<>>, cmds |-> <<>>,
   spawned |-> <<>>, loops |-> loops,
   pidNamespace |-> pidNamespace, uidMappings |-> uidMappings, gidMappings |-> gidMappings]

CommitJail(w) ==
  /\ running' = w.running
  /\ mounts' = w.mounts
  /\ cmd' = w.cmd
  /\ proc' = w.proc
  /\ alive' = w.alive
  /\ mtab' = w.mtab
  /\ host' = w.host
  /\ log' = w.log
  /\ cmds' = w.cmds
  /\ pidNamespace' = w.pidNamespace
  /\ uidMappings' = w.uidMappings
  /\ gidMappings' = w.gidMappings
  /\ spawned' = w.spawned
  /\ loops' = w.loops
  /\ UNCHANGED config

\* a call on the one controller of Spec and SpecCallers
Commit(w) == CommitJail(w) /\ UNCHANGED <<sandboxes, scratchDirs, build, image>>

NoPath == <<>>
Fprintf(w, m, p) == [w EXCEPT !.log = Append(@, [msg |-> m, path |-> p])]
Exec(w, c, flag, p, i, ok) ==
  [w EXCEPT !.cmds = Append(@, [cmd |-> c, flag |-> flag, path |-> p, idx |-> i, ok |-> ok])]

Ret(w, e) == [w |-> w, err |-> e]

\* exec.Cmd.Start/Run: a process of the program is launched with the
\* attributes of cmd.SysProcAttr
Launch(w, program, attr) ==
  [w EXCEPT !.spawned = Append(@, [program |-> program, attr |-> attr])]

\* ------------------------------------------------------------ mount table
Mounted(w, path) == Len(w.mtab[path]) > 0

\* a successful mount pushes a mount on the stack of its mount point
DoMount(w, path, mode) == [w EXCEPT !.mtab[path] = Append(@, mode)]
\* a successful umount pops the topmost mount
DoUmount(w, path) == [w EXCEPT !.mtab[path] = SubSeq(@, 1, Len(@) - 1)]
\* mount -o remount,ro,bind: the topmost mount becomes read-only when the
\* kernel honours the request
DoRemount(w, path, eff) ==
  IF eff /\ Len(w.mtab[path]) > 0
  THEN [w EXCEPT !.mtab[path] = [@ EXCEPT ![Len(@)] = "ro"]]
  ELSE w

Writable(w, path) == Len(w.mtab[path]) > 0 /\ w.mtab[path][Len(w.mtab[path])] = "rw"

\* ------------------------------------------------------------- setupMounts
\* A plan fixes the outcome of every external operation of one call:
\*   fail            the step of mount setup that fails, if any
\*   roEff           whether a remount that reports success really makes the
\*                   mount read-only
\*   touchOther      whether the write probe fails for a reason other than a
\*                   read-only file system (touch missing, disk full)
\*   spawnOk         whether the confined process can be started
\*   lvl             per mount point, the weakest umount that succeeds:
\*                   0 plain, 1 forced, 2 lazy, 3 none
\*   mountsReadable  whether /proc/mounts can be read
Fault(step, path) == [step |-> step, path |-> path]
NoFault == Fault("none", NoPath)

\* mutant: the ledger is not written
RecordNothing(w, path) == w

Record(w, path) == [w EXCEPT !.mounts = Append(@, path)]

\* lines 85-127: scratch directory and the overlay root
mountOverlay(w, plan) ==
  LET w1 == [w EXCEPT !.host.scratch = TRUE]
      w2 == Fprintf(w1, "Mounting overlay with options", ChrootDir)
  IN IF w.host.scratch /\ plan.fail = Fault("cleanScratch", NoPath)
     THEN Ret(w, "failed to clean temporary mount directory")
     ELSE IF plan.fail = Fault("mkdirUpper", NoPath)
     THEN Ret([w EXCEPT !.host.scratch = FALSE], "failed to create upper directory")
     ELSE IF plan.fail = Fault("mkdirWork", NoPath)
     THEN Ret(w1, "failed to create work directory")
     ELSE IF plan.fail = Fault("mount", ChrootDir)
     THEN Ret(Exec(w2, "mount", "overlay", ChrootDir, 0, FALSE), "failed to mount overlay")
     ELSE Ret(Record(DoMount(Exec(w2, "mount", "overlay", ChrootDir, 0, TRUE), ChrootDir, "rw"),
                     ChrootDir), "nil")

\* lines 142-161
RECURSIVE mountSpecials(_, _, _)
mountSpecials(w, i, plan) ==
  IF i > Len(specialMounts) THEN Ret(w, "nil")
  ELSE LET m == specialMounts[i] IN
    IF plan.fail = Fault("mkdir", m.target)
    THEN Ret(w, "failed to create mount target")
    ELSE IF plan.fail = Fault("mount", m.target)
    THEN Ret(Exec(w, "mount", m.fstype, m.target, 0, FALSE), "failed to mount")
    ELSE mountSpecials(
           Record(DoMount(Exec(w, "mount", m.fstype, m.target, 0, TRUE), m.target, "rw"), m.target),
           i + 1, plan)

\* lines 290-312: the write probe on the mounted template
probeTemplate(w, plan) ==
  LET created == Writable(w, templateMount) /\ ~plan.touchOther
      w1 == Exec(w, "touch", "", templateMount, 0, created)
  IN IF created
     THEN Ret([w1 EXCEPT !.host.tpl = @ \cup {"test_readonly.tmp"}],
              "CRITICAL ERROR: template is mounted as writable")
     ELSE IF plan.touchOther
     THEN Ret(Fprintf(Fprintf(w1, "Template protection test failed with unexpected error", NoPath),
                      "Template mounted successfully", NoPath), "nil")
     ELSE Ret(Fprintf(Fprintf(w1, "Template protection verified: mounted as read-only", NoPath),
                      "Template mounted successfully", NoPath), "nil")

\* lines 262-288: the scripts directory
mountScripts(w, plan) ==
  LET missing == "scripts" \notin w.host.tpl
      w1 == IF missing THEN [w EXCEPT !.host.tpl = @ \cup {"scripts"}] ELSE w
      w2 == Fprintf(w1, "Mounting scripts directory (read-only)", scriptsMount)
      w3 == DoMount(Exec(w2, "mount", "--bind", scriptsMount, 0, TRUE), scriptsMount, "rw")
  IN IF missing /\ plan.fail = Fault("mkdir", scriptsSrc)
     THEN Ret(w, "failed to create scripts directory in template")
     ELSE IF plan.fail = Fault("mount", scriptsMount)
     THEN Ret(Exec(w2, "mount", "--bind", scriptsMount, 0, FALSE), "failed to mount scripts directory")
     ELSE IF plan.fail = Fault("remount", scriptsMount)
     THEN Ret(Exec(w3, "mount", "remount,ro,bind", scriptsMount, 0, FALSE),
              "failed to remount scripts as read-only")
     ELSE probeTemplate(
            Record(DoRemount(Exec(w3, "mount", "remount,ro,bind", scriptsMount, 0, TRUE),
                             scriptsMount, plan.roEff[scriptsMount]), scriptsMount), plan)

\* lines 222-313
mountTemplate(w, plan) ==
  LET w1 == Fprintf(w, "Mounting template from", TemplatePath)
      w2 == Fprintf(w1, "Mounting template root (read-only)", templateMount)
      w3 == DoMount(Exec(w2, "mount", "--bind", templateMount, 0, TRUE), templateMount, "rw")
  IN IF ~w.host.template
     THEN Ret(w, "template path does not exist")
     ELSE IF plan.fail = Fault("mkdir", templateMount)
     THEN Ret(w1, "failed to create template mount directory")
     ELSE IF plan.fail = Fault("mkdir", scriptsMount)
     THEN Ret(w1, "failed to create scripts mount directory")
     ELSE IF plan.fail = Fault("mount", templateMount)
     THEN Ret(Exec(w2, "mount", "--bind", templateMount, 0, FALSE), "failed to mount template root")
     ELSE IF plan.fail = Fault("remount", templateMount)
     THEN Ret(Exec(w3, "mount", "remount,ro,bind", templateMount, 0, FALSE),
              "failed to remount template as read-only")
     ELSE mountScripts(
            Record(DoRemount(Exec(w3, "mount", "remount,ro,bind", templateMount, 0, TRUE),
                             templateMount, plan.roEff[templateMount]), templateMount), plan)

\* lines 169-216: the extra mount points of the configuration
RECURSIVE mountExtras(_, _, _)
mountExtras(w, i, plan) ==
  IF i > Len(w.config.MountPoints) THEN Ret(w, "nil")
  ELSE LET mountPoint == w.config.MountPoints[i]
           targetDir == Join(ChrootDir, mountPoint.Destination)
           flag == IF mountPoint.Type = "bind" THEN "--bind" ELSE mountPoint.Type
       IN
    IF ~Dotted(targetDir) /\ plan.fail = Fault("mkdir", targetDir)
    THEN Ret(w, "failed to create mount target directory")
    ELSE IF Dotted(targetDir) /\ plan.fail = Fault("mkdirParent", targetDir)
    THEN Ret(w, "failed to create parent directory for mount target")
    ELSE IF Dotted(targetDir) /\ plan.fail = Fault("create", targetDir)
    THEN Ret(w, "failed to create mount target file")
    ELSE IF plan.fail = Fault("mount", targetDir)
    THEN Ret(Exec(w, "mount", flag, targetDir, 0, FALSE), "failed to mount")
    ELSE mountExtras(
           Record(DoMount(Exec(w, "mount", flag, targetDir, 0, TRUE), targetDir, "rw"), targetDir),
           i + 1, plan)

\* mutant: the existence checks at the head of setupMounts are missing
IsNotExistNever(w, tree) == FALSE

\* lines 71 and 76: os.Stat of the tree fails with "not exist"
IsNotExist(w, tree) == ~w.host[tree]

\* lines 69-219
setupMounts(w, plan) ==
  IF IsNotExist(w, "builder") THEN Ret(w, "builder path does not exist")
  ELSE IF IsNotExist(w, "template") THEN Ret(w, "template path does not exist")
  ELSE IF plan.fail = Fault("mkdirChroot", NoPath) THEN Ret(w, "failed to create chroot directory")
  ELSE LET r1 == mountOverlay([w EXCEPT !.host.chroot = TRUE], plan) IN
    IF r1.err # "nil" THEN r1
    ELSE LET r2 == mountSpecials(r1.w, 1, plan) IN
      IF r2.err # "nil" THEN r2
      ELSE LET r3 == mountTemplate(r2.w, plan) IN
        IF r3.err # "nil" THEN Ret(r3.w, "failed to mount template")
        ELSE mountExtras(r3.w, 1, plan)

\* ----------------------------------------------------------------- cleanup
\* lines 393-422: isMounted reads /proc/mounts; unreadable means "not mounted"
isMounted(w, path, plan) == plan.mountsReadable /\ Mounted(w, path)

isMountedLog(w, plan) ==
  IF plan.mountsReadable THEN w ELSE Fprintf(w, "Warning: cannot read /proc/mounts", NoPath)

\* umount, umount -f, umount -l: ranks 0, 1, 2
Rank(flag) == IF flag = "" THEN 0 ELSE IF flag = "-f" THEN 1 ELSE 2
UmountOk(w, path, flag, plan) == Mounted(w, path) /\ plan.lvl[path] <= Rank(flag)
Umount(w, path, flag, i, plan) ==
  LET ok == UmountOk(w, path, flag, plan)
      w1 == Exec(w, "umount", flag, path, i, ok)
  IN IF ok THEN DoUmount(w1, path) ELSE w1

\* mutant: a failed unmount attempt is not reported
WarnNothing(w, m, p) == w

\* lines 448 and 457: the warning written when an unmount attempt failed
Warn(w, m, p) == Fprintf(w, m, p)

\* mutant: all three unmounts are run whatever the earlier ones returned
unmountEntryAllThree(w, mountPoint, i, plan) ==
  Umount(Umount(Umount(w, mountPoint, "", i, plan), mountPoint, "-f", i, plan),
         mountPoint, "-l", i, plan)

\* lines 442-468: the escalation on one ledger entry that is mounted
unmountEntry(w, mountPoint, i, plan) ==
  LET w1 == Fprintf(w, "Unmounting", mountPoint)
      w2 == Umount(w1, mountPoint, "", i, plan)
      w3 == Fprintf(Warn(w2, "Warning: normal unmount failed", mountPoint),
                    "Trying forced unmount", mountPoint)
      w4 == Umount(w3, mountPoint, "-f", i, plan)
      w5 == Fprintf(Warn(w4, "Warning: forced unmount failed", mountPoint),
                    "Trying lazy unmount", mountPoint)
  IN IF UmountOk(w1, mountPoint, "", plan)
     THEN Fprintf(w2, "Successfully unmounted", mountPoint)
     ELSE IF UmountOk(w3, mountPoint, "-f", plan)
     THEN w4
     ELSE Umount(w5, mountPoint, "-l", i, plan)

\* mutant: the ledger is walked from its first entry to its last
LoopIndexForward(n, k) == k

\* line 429, for i := len(j.mounts) - 1; i >= 0; i--: the ledger index
\* (counted from 1) visited in the k-th iteration, for a ledger of n entries
LoopIndex(n, k) == n - k + 1

\* mutant: the pass over the ledger ends at the first entry that stays mounted
RECURSIVE ledgerPassUntilStuck(_, _, _)
ledgerPassUntilStuck(w, k, plan) ==
  IF k > Len(w.mounts) THEN w
  ELSE LET i == Len(w.mounts) - k + 1
           mountPoint == w.mounts[i]
           w1 == isMountedLog(Fprintf(w, "Processing mount point", mountPoint), plan)
           w2 == unmountEntry(w1, mountPoint, i, plan)
       IN IF ~isMounted(w1, mountPoint, plan)
          THEN ledgerPassUntilStuck(Fprintf(w1, "is not mounted, skipping", mountPoint), k + 1, plan)
          ELSE IF Len(w2.mtab[mountPoint]) = Len(w1.mtab[mountPoint]) THEN w2
          ELSE ledgerPassUntilStuck(w2, k + 1, plan)

\* mutant: the pass over the ledger makes no mounted-check
RECURSIVE ledgerPassNoCheck(_, _, _)
ledgerPassNoCheck(w, k, plan) ==
  IF k > Len(w.mounts) THEN w
  ELSE LET i == Len(w.mounts) - k + 1
           mountPoint == w.mounts[i]
           w1 == Fprintf(w, "Processing mount point", mountPoint)
       IN ledgerPassNoCheck(unmountEntry(w1, mountPoint, i, plan), k + 1, plan)

\* lines 428-469: the pass over the ledger
RECURSIVE ledgerPass(_, _, _)
ledgerPass(w, k, plan) ==
  IF k > Len(w.mounts) THEN w
  ELSE LET i == LoopIndex(Len(w.mounts), k)
           mountPoint == w.mounts[i]
           w1 == isMountedLog(Fprintf(w, "Processing mount point", mountPoint), plan)
       IN IF ~isMounted(w1, mountPoint, plan)
          THEN ledgerPass(Fprintf(w1, "is not mounted, skipping", mountPoint), k + 1, plan)
          ELSE ledgerPass(unmountEntry(w1, mountPoint, i, plan), k + 1, plan)

\* mutant: there is no pass over the fixed targets
extraPassNothing(w, k, plan) == w

\* lines 474-496: the pass over the fixed targets
RECURSIVE extraPass(_, _, _)
extraPass(w, k, plan) ==
  IF k > Len(possibleMounts) THEN w
  ELSE LET mount == possibleMounts[k]
           w1 == isMountedLog(w, plan)
           w2 == Fprintf(w1, "Found remaining mount, force unmounting", mount)
       IN IF isMounted(w1, mount, plan)
          THEN extraPass(Umount(Umount(w2, mount, "-f", 0, plan), mount, "-l", 0, plan), k + 1, plan)
          ELSE extraPass(w1, k + 1, plan)

\* lines 529-536: os.RemoveAll of the parent of ChrootDir deletes what it
\* reaches, also through the mounts that are still there; errors are ignored
removeTmpBase(w) ==
  LET tpl == IF Writable(w, templateMount) THEN {}
             ELSE IF Writable(w, scriptsMount) THEN w.host.tpl \ {"scripts/10-base.sh"}
             ELSE w.host.tpl
  IN [Fprintf(w, "Removing temporary directory", ChrootDir)
        EXCEPT !.host.tpl = tpl,
               !.host.chroot = \E p \in Targets : Mounted(w, p)]

\* lines 558-559: the listing line of the device names an image of the tool
ToolNamedFiles == {"/tmp/sysweaver-out/alpine.img", "/srv/alpine-custom.img"}
ContainsToolName(line) == line.file \in ToolNamedFiles

\* lines 552-573: one line of the listing; the result of losetup -d is ignored
RECURSIVE detachListed(_, _)
detachListed(w, lines) ==
  IF lines = <<>> THEN w
  ELSE LET line == Head(lines)
           IsLine(d) == d.dev = line.dev
           Other(d) == d.dev # line.dev
           w1 == Exec(Fprintf(w, "Detaching loop device", <<line.dev>>),
                      "losetup", "-d", <<line.dev>>, 0, line.detachable)
           w2 == IF line.detachable /\ SelectSeq(w.loops.devs, IsLine) # <<>>
                 THEN [w1 EXCEPT !.loops.devs = SelectSeq(@, Other)]
                 ELSE w1
       IN IF ContainsToolName(line) THEN detachListed(w2, Tail(lines))
          ELSE detachListed(w, Tail(lines))

\* lines 542-574
cleanupLoopDevices(w) ==
  IF ~w.loops.list THEN Fprintf(w, "Warning: could not list loop devices", NoPath)
  ELSE detachListed(w, w.loops.devs)

\* mutant: the ledger is left as it is
ClearLedgerKeep(w) == w

\* line 472
ClearLedger(w) == [w EXCEPT !.mounts = <<>>]

\* lines 425-539 (device permissions are not part of the modelled host
\* state; only their log line is kept)
cleanup(w, plan) ==
  LET w1 == ledgerPass(Fprintf(w, "Starting cleanup process...", NoPath), 1, plan)
      w2 == ClearLedger(w1)
      w3 == IF ChrootDir # NoPath
            THEN extraPass(Fprintf(w2, "Performing additional cleanup", ChrootDir), 1, plan)
            ELSE w2
      w4 == cleanupLoopDevices(
              Fprintf(Fprintf(w3, "Restoring system device permissions...", NoPath),
                      "Cleaning up loop devices...", NoPath))
      w5 == IF w.config.TmpBase THEN removeTmpBase(w4) ELSE w4
  IN Fprintf(w5, "Cleanup completed", NoPath)

\* -------------------------------------------------------------- operations
\* mutant: the running flag is never written
SetRunningNot(w, b) == w

\* lines 389 and 601
SetRunning(w, b) == [w EXCEPT !.running = b]

\* mutant: the running check of Start() is missing
alreadyRunningNever(w) == FALSE

\* line 320
alreadyRunning(w) == w.running

\* mutant: no rollback when the spawn fails
rollbackNothing(w, plan) == w

\* line 385: the rollback when the confined process cannot be started
rollback(w, plan) == cleanup(w, plan)

\* mutant: the mapping tables are not filled in
CopyMappingsNone(mappings) == <<>>

\* lines 360-367 and 369-376: the stored list copied element by element
CopyMappings(mappings) ==
  [i \in 1..Len(mappings) |->
     [ContainerID |-> mappings[i].ContainerID, HostID |-> mappings[i].HostID,
      Size |-> mappings[i].Size]]

\* lines 346-378: the attributes of the confined process
SysProcAttr(w) ==
  LET newUser == Len(w.uidMappings) > 0 \/ Len(w.gidMappings) > 0 IN
    [Chroot |-> ChrootDir,
     NewPid |-> w.pidNamespace,
     NewUser |-> newUser,
     UidMappings |-> IF newUser THEN CopyMappings(w.uidMappings) ELSE <<>>,
     GidMappings |-> IF newUser THEN CopyMappings(w.gidMappings) ELSE <<>>]

\* lines 634 and 662: exec.Command leaves SysProcAttr nil, the process is a
\* child of the build tool in the namespaces of the host
NoSysProcAttr ==
  [Chroot |-> NoPath, NewPid |-> FALSE, NewUser |-> FALSE,
   UidMappings |-> <<>>, GidMappings |-> <<>>]

\* lines 316-391
Start(w, plan) ==
  IF alreadyRunning(w) THEN Ret(w, "jail is already running")
  ELSE LET r == setupMounts(w, plan) IN
    IF r.err # "nil" THEN r
    ELSE LET w1 == Launch([r.w EXCEPT !.cmd = "created", !.proc = "none"],
                          "/bin/ash", SysProcAttr(r.w)) IN
      IF ~plan.spawnOk
      THEN Ret(rollback(Exec(w1, "/bin/ash", "chroot", ChrootDir, 0, FALSE), plan),
               "failed to start command")
      ELSE Ret(SetRunning([Exec(w1, "/bin/ash", "chroot", ChrootDir, 0, TRUE)
                             EXCEPT !.cmd = "started", !.proc = "alive", !.alive = @ + 1],
                          TRUE), "nil")

\* lines 577-603
Stop(w, plan) ==
  IF ~w.running THEN Ret(w, "jail is not running")
  ELSE IF w.cmd = "started" /\ ~plan.killOk
  THEN Ret(Exec(w, "kill", "", NoPath, 0, FALSE), "failed to kill process")
  ELSE LET w1 == IF w.cmd = "started"
                 THEN [Exec(w, "kill", "", NoPath, 0, TRUE)
                         EXCEPT !.proc = "reaped", !.alive = @ - 1]
                 ELSE w
           \* Wait reports the signal that killed the process; only a
           \* process that had exited before can be waited for without error
           w2 == IF w.cmd = "started" /\ (plan.waitErr \/ w.proc = "alive")
                 THEN Fprintf(w1, "Error waiting for process to exit", NoPath)
                 ELSE w1
       IN Ret(SetRunning(cleanup(w2, plan), FALSE), "nil")

\* mutant: the running check of the executor is missing
notRunningNever(w) == FALSE

\* mutant: the executor also refuses when the confined process is gone
notRunningOrExited(w) == ~w.running \/ w.proc # "alive"

\* lines 626 and 654
notRunning(w) == ~w.running

\* mutant: what the command writes does not reach the log writer
ForwardNothing(w, output) == w

\* lines 638-639: cmd.Stdout and cmd.Stderr are the log writer
Forward(w, output) ==
  [w EXCEPT !.log = @ \o [k \in 1..Len(output) |-> [msg |-> output[k], path |-> NoPath]]]

\* lines 622-647: output goes to the log writer as it is produced
ExecuteCommand(w, command, plan) ==
  IF notRunning(w) THEN [w |-> w, err |-> "jail is not running", out |-> <<>>]
  ELSE LET w1 == Launch(Exec(Fprintf(w, "Chroot command", NoPath), "chroot", command, ChrootDir,
                                  0, plan.cmdOk), "chroot", NoSysProcAttr)
           w2 == Forward(w1, plan.output)
       IN [w |-> w2, err |-> IF plan.cmdOk THEN "nil" ELSE "command failed", out |-> <<>>]

\* mutant: the output of the command is dropped
CombinedOutputDropped(plan) == <<>>

\* line 666: cmd.CombinedOutput() returns what the command wrote to stdout
\* and stderr, whether or not it exited with status 0
CombinedOutput(plan) == plan.output

\* lines 650-672: output is collected and returned
ExecuteCommandWithOutput(w, command, plan) ==
  IF notRunning(w) THEN [w |-> w, err |-> "jail is not running", out |-> <<>>]
  ELSE LET w1 == Launch(Exec(Fprintf(w, "Chroot command", NoPath), "chroot", command, ChrootDir,
                                  0, plan.cmdOk), "chroot", NoSysProcAttr)
       IN [w |-> w1, err |-> IF plan.cmdOk THEN "nil" ELSE "command failed",
           out |-> CombinedOutput(plan)]

\* ------------------------------------------------------- isolation settings
\* lines 57-62: the mappings NewJail stores (id 0 inside, the invoking user
\* outside, one id)
DefaultUIDMappings == << [ContainerID |-> 0, HostID |-> "getuid", Size |-> 1] >>
DefaultGIDMappings == << [ContainerID |-> 0, HostID |-> "getgid", Size |-> 1] >>

\* mutant: the setters do not look at the running flag
frozenNever(w) == FALSE

\* lines 706, 716 and 726: the guard "if !j.running" of the setters
frozen(w) == w.running

\* lines 702-709
SetPidNamespace(w, enabled) ==
  IF ~frozen(w) THEN [w EXCEPT !.pidNamespace = enabled] ELSE w

\* lines 712-719
SetUIDMappings(w, mappings) ==
  IF ~frozen(w) THEN [w EXCEPT !.uidMappings = mappings] ELSE w

\* lines 722-729
SetGIDMappings(w, mappings) ==
  IF ~frozen(w) THEN [w EXCEPT !.gidMappings = mappings] ELSE w

\* lines 681-685, 688-692, 695-699
IsPidNamespaceEnabled(w) == w.pidNamespace
GetUIDMappings(w) == w.uidMappings
GetGIDMappings(w) == w.gidMappings

\* ------------------------------------------------------------------- mutex
NoHolder == "none"

\* mutant: Lock() does not wait for the holder
UnlockedAlways(mu) == TRUE

\* j.mutex.Lock() returns only when nobody holds the mutex
Unlocked(mu) == mu = NoHolder

\* ------------------------------------------------------------------- plans
FaultPoints ==
  {Fault(st, NoPath) : st \in {"mkdirChroot", "cleanScratch", "mkdirUpper", "mkdirWork"}}
    \cup {Fault("mount", p) : p \in Targets}
    \cup {Fault("mkdir", p) : p \in (Targets \ {ChrootDir}) \cup {scriptsSrc}}
    \cup {Fault("remount", p) : p \in {templateMount, scriptsMount}}
    \cup {Fault(st, p) : st \in {"mkdirParent", "create"}, p \in {q \in ExtraTargets : Dotted(q)}}

RoEffs == [{templateMount, scriptsMount} -> BOOLEAN]

Lvl0 == [p \in Targets |-> 0]
Lvls ==
  UNION { { [p \in Targets |-> IF p \in S THEN f[p] ELSE 0] : f \in [S -> 1..3] }
          : S \in {T \in SUBSET Targets : Cardinality(T) <= MaxFaults} }

SetupPlans ==
  [fail : FaultPoints \cup {NoFault}, roEff : RoEffs, touchOther : BOOLEAN,
   spawnOk : {TRUE}, lvl : {Lvl0}, mountsReadable : {TRUE}]
\* (with /proc/mounts unreadable no umount is attempted, so lvl plays no part)
SpawnPlans ==
  [fail : {NoFault}, roEff : RoEffs, touchOther : BOOLEAN,
   spawnOk : {FALSE}, lvl : Lvls, mountsReadable : {TRUE}]
    \cup [fail : {NoFault}, roEff : RoEffs, touchOther : BOOLEAN,
          spawnOk : {FALSE}, lvl : {Lvl0}, mountsReadable : {FALSE}]
StopPlans ==
  [killOk : BOOLEAN, waitErr : BOOLEAN, lvl : Lvls, mountsReadable : {TRUE}]
    \cup [killOk : BOOLEAN, waitErr : BOOLEAN, lvl : {Lvl0}, mountsReadable : {FALSE}]

Commands == {"/bin/sh"}
\* the command succeeds and prints, or prints to both streams and fails
ExecPlans ==
  {[cmdOk |-> TRUE, output |-> <<"stdout">>],
   [cmdOk |-> FALSE, output |-> <<"stdout", "stderr">>]}

\* the number of failures a plan asks of the environment (the write probe
\* fails in either case; touchOther only changes what it prints)
B(b) == IF b THEN 1 ELSE 0
LvlCost(lvl) == Cardinality({p \in Targets : lvl[p] # 0})
SetupCost(plan) ==
  B(plan.fail # NoFault) + B(~plan.roEff[templateMount]) + B(~plan.roEff[scriptsMount])
SpawnCost(plan) == SetupCost(plan) + 1 + LvlCost(plan.lvl) + B(~plan.mountsReadable)
StopCost(plan) == B(~plan.killOk) + LvlCost(plan.lvl) + B(~plan.mountsReadable)
Spend(n) == faults + n <= MaxFaults /\ faults' = faults + n

\* the plans that a budget of b failures allows
SetupPlansFor == [b \in 0..MaxFaults |-> {plan \in SetupPlans : SetupCost(plan) <= b}]
SpawnPlansFor == [b \in 0..MaxFaults |-> {plan \in SpawnPlans : SpawnCost(plan) <= b}]
StopPlansFor == [b \in 0..MaxFaults |-> {plan \in StopPlans : StopCost(plan) <= b}]

DefaultStopPlan == [killOk |-> TRUE, waitErr |-> TRUE, lvl |-> Lvl0, mountsReadable |-> TRUE]
DefaultSetupPlan ==
  [fail |-> NoFault, roEff |-> [p \in {templateMount, scriptsMount} |-> TRUE],
   touchOther |-> FALSE, spawnOk |-> TRUE, lvl |-> Lvl0, mountsReadable |-> TRUE]

Result(name, err, out, ret) ==
  [name |-> name, err |-> err, out |-> out, ret |-> ret, arg |-> <<>>]

\* the goroutines that call the methods of the one controller
Callers == {"c1", "c2"}

\* -------------------------------------------------------------------- Init
\* NewJail (lines 32-66) and the host it finds
\* the explored set-ups: a configuration with two extra mount points and a
\* template that has a scripts directory; a confinement root under a temporary
\* directory, no extra mount points and a template without scripts directory;
\* a missing base tree; a missing template tree
Host(b, t, tpl) ==
  [builder |-> b, template |-> t, tpl |-> tpl, base |-> {"rootfs"},
   chroot |-> FALSE, scratch |-> FALSE]
Setups ==
  {[config |-> [MountPoints |-> TwoMountPoints, TmpBase |-> FALSE],
    host |-> Host(TRUE, TRUE, {"jail.yaml", "scripts", "scripts/10-base.sh"})],
   [config |-> [MountPoints |-> NoMountPoints, TmpBase |-> TRUE],
    host |-> Host(TRUE, TRUE, {"jail.yaml"})],
   [config |-> [MountPoints |-> NoMountPoints, TmpBase |-> FALSE],
    host |-> Host(FALSE, TRUE, {"jail.yaml"})],
   [config |-> [MountPoints |-> NoMountPoints, TmpBase |-> FALSE],
    host |-> Host(TRUE, FALSE, {})]}

\* the controllers of the two-controller specification and their paths: the
\* confinement roots differ, the scratch directory (line 86) is
\* filepath.Join(os.TempDir(), "sysweaver-mount") for every controller
Jails == {"a", "b"}
ChrootDirOf(j) == <<"chroot", j>>
tmpMountBase(j) == <<"tmp", "sysweaver-mount">>
ScratchPaths == {tmpMountBase(j) : j \in Jails}

NoDir == 0
InitSandboxes == [j \in Jails |-> [running |-> FALSE, root |-> <<>>, mounts |-> <<>>]]
InitScratchDirs == [at |-> [p \in ScratchPaths |-> NoDir], live |-> {}, made |-> 0]

\* the build command before it is invoked
NoBuild ==
  [pc |-> "none", verbose |-> FALSE, manual |-> FALSE, scripts |-> <<>>, i |-> 0,
   ran |-> <<>>, shells |-> 0, copied |-> FALSE, err |-> "nil"]

\* a host without loop devices
NoLoops == [list |-> TRUE, devs |-> <<>>]

\* no raw image is being built
NoImage ==
  [pc |-> "none", Partitions |-> <<>>, OutputPath |-> "", Size |-> <<>>, parsed |-> <<>>,
   totalSizeMB |-> 0, startPercent |-> 0, i |-> 0, ranges |-> <<>>, loopDevice |-> "",
   deferred |-> <<>>, mounted |-> <<>>, released |-> <<>>, err |-> "nil"]

JailInit(su) ==
  /\ running = FALSE
  /\ mounts = <<>>
  /\ cmd = "nil"
  /\ config = su.config /\ host = su.host
  /\ proc = "none"
  /\ alive = 0
  /\ mtab = [p \in Targets |-> <<>>]
  /\ op = Result("NewJail", "nil", <<>>, FALSE)
  /\ log = <<>>
  /\ cmds = <<>>
  /\ faults = 0
  /\ pidNamespace = TRUE
  /\ uidMappings = DefaultUIDMappings
  /\ gidMappings = DefaultGIDMappings
  /\ mutex = NoHolder
  /\ pc = [c \in Callers |-> "out"]
  /\ started = <<>>
  /\ spawned = <<>>
  /\ loops = NoLoops

Init ==
  /\ \E su \in Setups : JailInit(su)
  /\ sandboxes = InitSandboxes
  /\ scratchDirs = InitScratchDirs
  /\ build = NoBuild
  /\ image = NoImage

\* ----------------------------------------------------------------- actions
\* a Start() is explored only while the ledger and the mount stacks are small
StartBound ==
  running \/ (Len(mounts) <= MaxLedger /\ \A p \in Targets : Len(mtab[p]) < MaxStack)

\* one caller at a time: the call finds the mutex free (Lock, first line of
\* every method) and has released it (the deferred Unlock) when it returns
OneCaller == Unlocked(mutex) /\ UNCHANGED <<mutex, pc>>

\* history: the ledger a successful Start() leaves
Track(name, r) ==
  started' = IF name = "Start" /\ r.err = "nil" THEN r.w.mounts ELSE started

\* Start() in which mount setup decides the outcome
CallStart ==
  /\ OneCaller
  /\ StartBound
  /\ \E plan \in IF running THEN {DefaultSetupPlan} ELSE SetupPlansFor[MaxFaults - faults] :
       LET r == Start(World, plan) IN
         /\ Spend(IF running THEN 0 ELSE SetupCost(plan))
         /\ Commit(r.w)
         /\ Track("Start", r)
         /\ op' = Result("Start", r.err, <<>>, FALSE)

\* Start() in which all mounts succeed and the spawn fails
CallStartSpawnFails ==
  /\ OneCaller
  /\ StartBound
  /\ ~running
  /\ \E plan \in SpawnPlansFor[MaxFaults - faults] :
       LET r == Start(World, plan) IN
         /\ Spend(SpawnCost(plan))
         /\ r.err = "failed to start command"
         /\ Commit(r.w)
         /\ UNCHANGED started
         /\ op' = Result("Start", r.err, <<>>, FALSE)

CallStop ==
  /\ OneCaller
  /\ UNCHANGED started
  /\ \E plan \in IF running THEN StopPlansFor[MaxFaults - faults] ELSE {DefaultStopPlan} :
    LET r == Stop(World, plan) IN
      /\ Spend(IF running THEN StopCost(plan) ELSE 0)
      /\ (proc = "alive" \/ ~plan.killOk) => plan.waitErr
      /\ Commit(r.w)
      /\ op' = Result("Stop", r.err, <<>>, FALSE)

CallExecuteCommand ==
  /\ OneCaller
  /\ UNCHANGED started
  /\ \E command \in Commands, plan \in ExecPlans :
    LET r == ExecuteCommand(World, command, plan) IN
      /\ UNCHANGED faults
      /\ Commit(r.w)
      /\ op' = Result("ExecuteCommand", r.err, r.out, FALSE)

CallExecuteCommandWithOutput ==
  /\ OneCaller
  /\ UNCHANGED started
  /\ \E command \in Commands, plan \in ExecPlans :
    LET r == ExecuteCommandWithOutput(World, command, plan) IN
      /\ UNCHANGED faults
      /\ Commit(r.w)
      /\ op' = Result("ExecuteCommandWithOutput", r.err, r.out, FALSE)

\* lines 606-611
CallIsRunning ==
  /\ OneCaller
  /\ UNCHANGED <<faults, started>>
  /\ Commit(World)
  /\ op' = Result("IsRunning", "nil", <<>>, running)

\* the environment: something else unmounts a mount point of the session
ExtUmount ==
  \E p \in Targets :
    /\ running
    /\ p \in Range(mounts)
    /\ Len(mtab[p]) > 0
    /\ Spend(1)
    /\ UNCHANGED <<mutex, pc, started>>
    /\ Commit(DoUmount(World, p))
    /\ op' = Result("ExtUmount", "nil", <<>>, FALSE)

\* the environment: the confined shell exits on its own
ProcExit ==
  /\ proc = "alive"
  /\ UNCHANGED <<faults, mutex, pc, started>>
  /\ Commit([World EXCEPT !.proc = "exited"])
  /\ op' = Result("ProcExit", "nil", <<>>, FALSE)

Next ==
  \/ CallStart
  \/ CallStartSpawnFails
  \/ CallStop
  \/ CallExecuteCommand
  \/ CallExecuteCommandWithOutput
  \/ CallIsRunning
  \/ ExtUmount
  \/ ProcExit

Spec == Init /\ [][Next]_vars

\* ------------------------------------------------------ concurrent callers
\* Every exported method is "j.mutex.Lock(); defer j.mutex.Unlock(); body".
\* A caller invokes a method and reaches Lock(); Lock() returns when the mutex
\* is free; the body and the deferred Unlock() are one step.  The environment
\* of this specification fails at one point of each kind.
Methods ==
  {"Start", "Stop", "ExecuteCommand", "ExecuteCommandWithOutput", "IsRunning",
   "SetPidNamespace", "SetUIDMappings", "SetGIDMappings",
   "IsPidNamespaceEnabled", "GetUIDMappings", "GetGIDMappings"}

\* the arguments the callers pass to the setters
PidNamespaceArgs == BOOLEAN
MappingArgs == {<<>>}

CallerStartPlans ==
  {DefaultSetupPlan,
   [DefaultSetupPlan EXCEPT !.fail = Fault("mount", Join(ChrootDir, <<"proc">>))],
   [DefaultSetupPlan EXCEPT !.spawnOk = FALSE]}
CallerStopPlans == {DefaultStopPlan, [DefaultStopPlan EXCEPT !.killOk = FALSE]}
CallerExecPlan == [cmdOk |-> TRUE, output |-> <<"stdout">>]
StartCost(plan) == IF plan.spawnOk THEN SetupCost(plan) ELSE SpawnCost(plan)

dataVars ==
  <<running, mounts, cmd, config, proc, alive, mtab, host, op, log, cmds, faults,
    pidNamespace, uidMappings, gidMappings, started, spawned, sandboxes, scratchDirs, build,
    loops, image>>

\* the caller invokes a method of the controller and arrives at Lock()
Invoke(c) ==
  /\ pc[c] = "out"
  /\ pc' = [pc EXCEPT ![c] = "Lock"]
  /\ UNCHANGED <<mutex, dataVars>>

\* Lock() returns and the caller is in the body of method m
Acquire(c, m) ==
  /\ pc[c] = "Lock"
  /\ Unlocked(mutex)
  /\ m = "Start" => StartBound
  /\ mutex' = c
  /\ pc' = [pc EXCEPT ![c] = m]
  /\ UNCHANGED dataVars

\* the deferred Unlock() as the method returns
Unlock(c) == mutex' = NoHolder /\ pc' = [pc EXCEPT ![c] = "out"]

StartBody(c) ==
  /\ pc[c] = "Start"
  /\ \E plan \in IF running THEN {DefaultSetupPlan} ELSE CallerStartPlans :
       LET r == Start(World, plan) IN
         /\ Spend(IF running THEN 0 ELSE StartCost(plan))
         /\ Commit(r.w)
         /\ Track("Start", r)
         /\ op' = Result("Start", r.err, <<>>, FALSE)
  /\ Unlock(c)

StopBody(c) ==
  /\ pc[c] = "Stop"
  /\ \E plan \in IF running THEN CallerStopPlans ELSE {DefaultStopPlan} :
       LET r == Stop(World, plan) IN
         /\ Spend(IF running THEN StopCost(plan) ELSE 0)
         /\ Commit(r.w)
         /\ op' = Result("Stop", r.err, <<>>, FALSE)
  /\ UNCHANGED started
  /\ Unlock(c)

ExecuteCommandBody(c) ==
  /\ pc[c] = "ExecuteCommand"
  /\ \E command \in Commands :
       LET r == ExecuteCommand(World, command, CallerExecPlan) IN
         /\ Commit(r.w)
         /\ op' = Result("ExecuteCommand", r.err, r.out, FALSE)
  /\ UNCHANGED <<faults, started>>
  /\ Unlock(c)

ExecuteCommandWithOutputBody(c) ==
  /\ pc[c] = "ExecuteCommandWithOutput"
  /\ \E command \in Commands :
       LET r == ExecuteCommandWithOutput(World, command, CallerExecPlan) IN
         /\ Commit(r.w)
         /\ op' = Result("ExecuteCommandWithOutput", r.err, r.out, FALSE)
  /\ UNCHANGED <<faults, started>>
  /\ Unlock(c)

IsRunningBody(c) ==
  /\ pc[c] = "IsRunning"
  /\ Commit(World)
  /\ op' = Result("IsRunning", "nil", <<>>, running)
  /\ UNCHANGED <<faults, started>>
  /\ Unlock(c)

SetPidNamespaceBody(c) ==
  /\ pc[c] = "SetPidNamespace"
  /\ \E enabled \in PidNamespaceArgs :
       /\ Commit(SetPidNamespace(World, enabled))
       /\ op' = [Result("SetPidNamespace", "nil", <<>>, FALSE) EXCEPT !.arg = <<enabled>>]
  /\ UNCHANGED <<faults, started>>
  /\ Unlock(c)

SetUIDMappingsBody(c) ==
  /\ pc[c] = "SetUIDMappings"
  /\ \E mappings \in MappingArgs :
       /\ Commit(SetUIDMappings(World, mappings))
       /\ op' = [Result("SetUIDMappings", "nil", <<>>, FALSE) EXCEPT !.arg = <<mappings>>]
  /\ UNCHANGED <<faults, started>>
  /\ Unlock(c)

SetGIDMappingsBody(c) ==
  /\ pc[c] = "SetGIDMappings"
  /\ \E mappings \in MappingArgs :
       /\ Commit(SetGIDMappings(World, mappings))
       /\ op' = [Result("SetGIDMappings", "nil", <<>>, FALSE) EXCEPT !.arg = <<mappings>>]
  /\ UNCHANGED <<faults, started>>
  /\ Unlock(c)

IsPidNamespaceEnabledBody(c) ==
  /\ pc[c] = "IsPidNamespaceEnabled"
  /\ Commit(World)
  /\ op' = Result("IsPidNamespaceEnabled", "nil", <<>>, IsPidNamespaceEnabled(World))
  /\ UNCHANGED <<faults, started>>
  /\ Unlock(c)

GetUIDMappingsBody(c) ==
  /\ pc[c] = "GetUIDMappings"
  /\ Commit(World)
  /\ op' = Result("GetUIDMappings", "nil", <<>>, GetUIDMappings(World))
  /\ UNCHANGED <<faults, started>>
  /\ Unlock(c)

GetGIDMappingsBody(c) ==
  /\ pc[c] = "GetGIDMappings"
  /\ Commit(World)
  /\ op' = Result("GetGIDMappings", "nil", <<>>, GetGIDMappings(World))
  /\ UNCHANGED <<faults, started>>
  /\ Unlock(c)

NextCallers ==
  \/ \E c \in Callers : Invoke(c)
  \/ \E c \in Callers, m \in Methods : Acquire(c, m)
  \/ \E c \in Callers : StartBody(c)
  \/ \E c \in Callers : StopBody(c)
  \/ \E c \in Callers : ExecuteCommandBody(c)
  \/ \E c \in Callers : ExecuteCommandWithOutputBody(c)
  \/ \E c \in Callers : IsRunningBody(c)
  \/ \E c \in Callers : SetPidNamespaceBody(c)
  \/ \E c \in Callers : SetUIDMappingsBody(c)
  \/ \E c \in Callers : SetGIDMappingsBody(c)
  \/ \E c \in Callers : IsPidNamespaceEnabledBody(c)
  \/ \E c \in Callers : GetUIDMappingsBody(c)
  \/ \E c \in Callers : GetGIDMappingsBody(c)
  \/ ProcExit

SpecCallers == Init /\ [][NextCallers]_vars

\* the variables of the one controller of Spec, SpecCallers and SpecBuild
jailVars ==
  <<running, mounts, cmd, config, proc, alive, mtab, host, op, log, cmds, faults,
    pidNamespace, uidMappings, gidMappings, mutex, pc, started, spawned, loops>>

\* ---------------------------------------------- two controllers on one host
\* Two controllers with different confinement roots and the same base tree.
\* Of mount setup this specification keeps the scratch directory and the
\* overlay root (lines 85-127), of teardown the unmounts of the root; a
\* directory is identified by the order of its creation on the host.
Min(a, b) == IF a < b THEN a ELSE b

\* lines 89-93: os.RemoveAll of the scratch directory found at the path
RemoveScratch(sd, path) ==
  [sd EXCEPT !.live = @ \ {sd.at[path]}, !.at[path] = NoDir]

\* lines 96-106: os.MkdirAll of upper and work makes a new directory
MakeScratch(sd, path) ==
  [sd EXCEPT !.made = @ + 1, !.at[path] = sd.made + 1, !.live = @ \cup {sd.made + 1}]

\* lines 85-106 for controller j
SetupScratch(sd, j) ==
  LET path == tmpMountBase(j) IN
    MakeScratch(IF sd.at[path] # NoDir THEN RemoveScratch(sd, path) ELSE sd, path)

\* lines 108-127: the overlay with upperdir and workdir in the scratch
\* directory is mounted on the confinement root and recorded
MountRoot(sb, j, sd) ==
  [sb EXCEPT ![j].root = Append(@, sd.at[tmpMountBase(j)]),
             ![j].mounts = Append(@, ChrootDirOf(j))]

\* lines 428-496 for the root: one unmount per ledger entry, two more in the
\* second pass, as long as the root is mounted; line 472 clears the ledger
CleanupRoot(sb, j, umountOk) ==
  LET pops == IF umountOk THEN Min(Len(sb[j].root), Len(sb[j].mounts) + 2) ELSE 0 IN
    [sb EXCEPT ![j].root = SubSeq(@, 1, Len(@) - pops), ![j].mounts = <<>>]

\* Start() of controller j; outcome: "clean" the old scratch directory cannot
\* be removed, "setup" a mount after the overlay fails, "spawn" the process
\* cannot be started, "ok"
StartOf(j, outcome) ==
  /\ scratchDirs.made < MaxSetups
  /\ Len(sandboxes[j].root) < MaxStack
  /\ outcome = "clean" => scratchDirs.at[tmpMountBase(j)] # NoDir
  /\ IF sandboxes[j].running \/ outcome = "clean"
     THEN UNCHANGED <<sandboxes, scratchDirs>>
     ELSE LET sd == SetupScratch(scratchDirs, j)
              sb == MountRoot(sandboxes, j, sd)
          IN /\ scratchDirs' = sd
             /\ sandboxes' = IF outcome = "ok" THEN [sb EXCEPT ![j].running = TRUE]
                             ELSE IF outcome = "spawn" THEN CleanupRoot(sb, j, TRUE)
                             ELSE sb
  /\ UNCHANGED <<jailVars, build, image>>

\* Stop() of controller j
StopOf(j, umountOk) ==
  /\ sandboxes[j].running
  /\ sandboxes' = [CleanupRoot(sandboxes, j, umountOk) EXCEPT ![j].running = FALSE]
  /\ UNCHANGED <<scratchDirs, jailVars, build, image>>

NextTwo ==
  \/ \E j \in Jails, outcome \in {"ok", "clean", "setup", "spawn"} : StartOf(j, outcome)
  \/ \E j \in Jails, umountOk \in BOOLEAN : StopOf(j, umountOk)

InitTwo ==
  /\ JailInit([config |-> [MountPoints |-> NoMountPoints, TmpBase |-> FALSE],
               host |-> Host(TRUE, TRUE, {"jail.yaml"})])
  /\ sandboxes = InitSandboxes
  /\ scratchDirs = InitScratchDirs
  /\ build = NoBuild
  /\ image = NoImage

SpecTwo == InitTwo /\ [][NextTwo]_vars

\* ------------------------------------------------------- the build command
\* buildCmd.RunE of cmd/main.go after NewJail succeeded: one action per step
\* between two calls of the controller; "cleanup" is the deferred closure.
ScriptLists == {[k \in 1..n |-> k] : n \in 0..MaxScripts}

BuildSet(b, position, err) == [b EXCEPT !.pc = position, !.err = err]
SameJail == UNCHANGED <<jailVars, sandboxes, scratchDirs, image>>
JailCall(w) == CommitJail(w) /\ UNCHANGED <<mutex, pc, started, sandboxes, scratchDirs, image>>

\* lines 96-100
BuildMkdirOutput ==
  /\ build.pc = "created"
  /\ \E ok \in BOOLEAN :
       IF ok
       THEN /\ build' = BuildSet(build, "start", "nil")
            /\ JailCall([World EXCEPT !.host.chroot = TRUE])
            /\ UNCHANGED <<op, faults>>
       ELSE /\ build' = BuildSet(build, "cleanup", "error creating output directory in chroot")
            /\ SameJail

\* lines 102-105
BuildStart ==
  /\ build.pc = "start"
  /\ \E plan \in CallerStartPlans :
       LET r == Start(World, plan) IN
         /\ Spend(StartCost(plan))
         /\ JailCall(r.w)
         /\ op' = Result("Start", r.err, <<>>, FALSE)
         /\ build' = IF r.err = "nil" THEN BuildSet(build, "list", "nil")
                     ELSE BuildSet(build, "cleanup", "error starting jail")

\* lines 107-116
BuildList ==
  /\ build.pc = "list"
  /\ \E ok \in BOOLEAN :
       build' = IF ok THEN [BuildSet(build, "loop", "nil") EXCEPT !.i = 1]
                ELSE BuildSet(build, "cleanup", "error getting scripts")
  /\ SameJail

\* mutant: the loop goes on to the next script after a failure
AfterScriptContinue(b, err) == [b EXCEPT !.i = @ + 1]

\* lines 147-174 and 211-237: a failed script ends the loop and the build
AfterScript(b, err) ==
  IF err = "nil" THEN [b EXCEPT !.i = @ + 1]
  ELSE IF b.manual THEN BuildSet(b, "debug", "error executing script")
  ELSE BuildSet(b, "cleanup", "error executing script")

\* lines 119-241: one iteration of the loop over the scripts
BuildScript ==
  /\ build.pc = "loop"
  /\ build.i <= Len(build.scripts)
  /\ \E plan \in ExecPlans :
       LET r == IF build.verbose THEN ExecuteCommand(World, "/bin/sh", plan)
                ELSE ExecuteCommandWithOutput(World, "/bin/sh", plan)
           b == [build EXCEPT !.ran = Append(@, build.scripts[build.i])]
       IN /\ JailCall(r.w)
          /\ op' = Result(IF build.verbose THEN "ExecuteCommand" ELSE "ExecuteCommandWithOutput",
                          r.err, r.out, FALSE)
          /\ UNCHANGED faults
          /\ build' = AfterScript(b, r.err)

\* lines 156-173 and 220-236: the interactive shell after a failed script
BuildDebugShell ==
  /\ build.pc = "debug"
  /\ build' = [BuildSet(build, "cleanup", build.err) EXCEPT !.shells = @ + 1]
  /\ SameJail

\* mutant: the loop over the scripts is left before its end
BuildScriptsDoneEarly ==
  /\ build.pc = "loop"
  /\ build' = BuildSet(build, "copy", "nil")
  /\ SameJail

\* lines 243-260: all scripts done; the interactive shell of manual mode
BuildScriptsDone ==
  /\ build.pc = "loop"
  /\ build.i > Len(build.scripts)
  /\ build' = IF build.manual THEN [BuildSet(build, "copy", "nil") EXCEPT !.shells = @ + 1]
              ELSE BuildSet(build, "copy", "nil")
  /\ SameJail

\* lines 264-311
BuildCopy ==
  /\ build.pc = "copy"
  /\ \E e \in {"nil", "error creating output directory", "error searching for output files",
               "error opening source file", "error creating destination file",
               "error copying file"} :
       build' = [BuildSet(build, "cleanup", e) EXCEPT !.copied = (e = "nil")]
  /\ SameJail

\* lines 78-85, run by the defer of line 89 when RunE returns
BuildCleanup ==
  /\ build.pc = "cleanup"
  /\ build' = BuildSet(build, "returned", build.err)
  /\ IF running
     THEN \E plan \in CallerStopPlans :
            LET r == Stop(World, plan) IN
              /\ Spend(StopCost(plan))
              /\ JailCall(r.w)
              /\ op' = Result("Stop", r.err, <<>>, FALSE)
     ELSE /\ JailCall(World)
          /\ op' = Result("IsRunning", "nil", <<>>, FALSE)
          /\ UNCHANGED faults

NextBuild ==
  \/ BuildMkdirOutput
  \/ BuildStart
  \/ BuildList
  \/ BuildScript
  \/ BuildDebugShell
  \/ BuildScriptsDone
  \/ BuildCopy
  \/ BuildCleanup

InitBuild ==
  /\ \E su \in {x \in Setups : x.host.template} : JailInit(su)
  /\ sandboxes = InitSandboxes
  /\ scratchDirs = InitScratchDirs
  /\ \E verbose \in BOOLEAN, manual \in BOOLEAN, scripts \in ScriptLists :
       build = [NoBuild EXCEPT !.pc = "created", !.verbose = verbose, !.manual = manual,
                               !.scripts = scripts]
  /\ image = NoImage

SpecBuild == InitBuild /\ [][NextBuild]_vars

\* ----------------------------------------------------------- the raw image
\* image.CreateRawImage and image.ParseSizeToMB (src/internal/config/config.go,
\* lines 51-336) and the part of the build command that calls them
\* (src/Makefile, lines 205-268). A string is the sequence of its characters.
Digits == <<"0", "1", "2", "3", "4", "5", "6", "7", "8", "9">>
IsDigit(c) == \E d \in DOMAIN Digits : Digits[d] = c
DigitValue(c) == (CHOOSE d \in DOMAIN Digits : Digits[d] = c) - 1

\* strings.ToUpper on the letters of the size suffixes
UpperChar(c) ==
  CASE c = "m" -> "M" [] c = "g" -> "G" [] c = "i" -> "I" [] c = "b" -> "B" [] OTHER -> c
ToUpper(str) == [k \in DOMAIN str |-> UpperChar(str[k])]

HasSuffix(str, suffix) ==
  Len(str) >= Len(suffix) /\ SubSeq(str, Len(str) - Len(suffix) + 1, Len(str)) = suffix

\* size[:len(size)-k]
DropLast(str, k) == SubSeq(str, 1, Len(str) - k)

\* strconv.Atoi of an unsigned decimal; the value is 0 when it returns an error
RECURSIVE DecimalValue(_)
DecimalValue(str) ==
  IF str = <<>> THEN 0
  ELSE DecimalValue(SubSeq(str, 1, Len(str) - 1)) * 10 + DigitValue(str[Len(str)])
Atoi(str) ==
  IF str # <<>> /\ \A k \in DOMAIN str : IsDigit(str[k]) THEN DecimalValue(str) ELSE 0

\* fmt.Sprintf("%d", n) for n >= 0
RECURSIVE Itoa(_)
Itoa(n) == IF n < 10 THEN <<Digits[n + 1]>> ELSE Itoa(n \div 10) \o <<Digits[(n % 10) + 1]>>

\* lines 308-326
ParseSizeToMB(size) ==
  LET up == ToUpper(size) IN
    IF HasSuffix(up, <<"G", "I", "B">>) \/ HasSuffix(up, <<"G", "B">>)
    THEN Atoi(DropLast(up, 3)) * 1024
    ELSE IF HasSuffix(up, <<"G">>) THEN Atoi(DropLast(up, 1)) * 1024
    ELSE IF HasSuffix(up, <<"M", "I", "B">>) \/ HasSuffix(up, <<"M", "B">>)
    THEN Atoi(DropLast(up, 3))
    ELSE IF HasSuffix(up, <<"M">>) THEN Atoi(DropLast(up, 1))
    ELSE Atoi(up)

Star == <<"*">>

\* the partitions of a template: Size is what the code reads; n and suffix
\* are the number and the unit the size string was written from
Sized(n, suffix, fs) ==
  [Size |-> Itoa(n) \o suffix, Filesystem |-> fs, n |-> n, suffix |-> suffix]
PartitionChoices ==
  { [Size |-> Star, Filesystem |-> "ext4", n |-> 0, suffix |-> Star],
    Sized(512, <<"M", "i", "B">>, "vfat"),
    Sized(512, <<"M", "B">>, "ext4"),
    Sized(64, <<"m">>, "vfat"),
    Sized(1, <<"G">>, "btrfs"),
    Sized(2, <<"G", "B">>, "ext4"),
    Sized(1, <<"g", "i", "b">>, "ext4"),
    Sized(0, <<"M">>, "ext4") }
PartitionLists == UNION {[1..n -> PartitionChoices] : n \in 0..MaxParts}
OutputPaths == {"/out/alpine.img", "/tmp/sysweaver-out/alpine.img"}

\* src/Makefile lines 212-241: the sum of the fixed sizes, and 1 GB for "*"
RECURSIVE SumSizes(_)
SumSizes(ps) ==
  IF ps = <<>> THEN 0
  ELSE (IF Head(ps).Size # Star THEN ParseSizeToMB(Head(ps).Size) ELSE 0) + SumSizes(Tail(ps))
HasUnbounded(ps) == \E k \in DOMAIN ps : ps[k].Size = Star

\* src/Makefile lines 244-253: ten percent and 50 MB more, as "<n>G" or "<n>M"
ImgSize(ps) ==
  LET sum == SumSizes(ps) + (IF HasUnbounded(ps) THEN 1024 ELSE 0)
      totalSize == sum + (sum \div 10) + 50
  IN IF totalSize >= 1024 THEN Itoa((totalSize + 1023) \div 1024) \o <<"G">>
     ELSE Itoa(totalSize) \o <<"M">>

\* lines 127-133
TotalSizeMB(size) ==
  IF HasSuffix(size, <<"G">>) THEN Atoi(DropLast(size, 1)) * 1024
  ELSE IF HasSuffix(size, <<"M">>) THEN Atoi(DropLast(size, 1))
  ELSE 0

\* mutant: the end of a partition is not limited to the end of the disk
EndPercentUncapped(startPercent, size, totalSizeMB) ==
  IF size = Star THEN 100 ELSE startPercent + (ParseSizeToMB(size) * 100) \div totalSizeMB

\* lines 141-155
EndPercent(startPercent, size, totalSizeMB) ==
  IF size = Star THEN 100
  ELSE LET endPercent == startPercent + (ParseSizeToMB(size) * 100) \div totalSizeMB
       IN IF endPercent > 100 THEN 100 ELSE endPercent

ImageSet(im, position, err) == [im EXCEPT !.pc = position, !.err = err]
ImageOnly == UNCHANGED <<jailVars, sandboxes, scratchDirs, build>>

\* src/Makefile lines 205-263: the build command sizes the image
ImageSize ==
  /\ image.pc = "config"
  /\ image' =
       IF Len(image.Partitions) = 0 THEN ImageSet(image, "returned", "nil")
       ELSE [ImageSet(image, "create", "nil") EXCEPT
               !.Size = ImgSize(image.Partitions),
               !.parsed = [k \in DOMAIN image.Partitions |->
                             IF image.Partitions[k].Size # Star
                             THEN ParseSizeToMB(image.Partitions[k].Size) ELSE 0]]
  /\ ImageOnly

\* lines 83-133: tools, output directory, empty image, partition table, sizes
ImageCreate ==
  /\ image.pc = "create"
  /\ \E e \in {"nil", "required tool not found", "failed to create output directory",
               "failed to create empty disk image", "failed to create partition table"} :
       image' = IF e # "nil" THEN ImageSet(image, "returned", e)
                ELSE [ImageSet(image, "mkpart", "nil") EXCEPT
                        !.totalSizeMB = TotalSizeMB(image.Size), !.startPercent = 0, !.i = 1]
  /\ ImageOnly

\* lines 137-190: one iteration of the loop that creates the partitions; a
\* division by zero ends the program
ImagePartition ==
  /\ image.pc = "mkpart"
  /\ image.i <= Len(image.Partitions)
  /\ LET partition == image.Partitions[image.i] IN
       IF partition.Size # Star /\ image.totalSizeMB = 0
       THEN image' = ImageSet(image, "panic", "integer divide by zero")
       ELSE LET endPercent == EndPercent(image.startPercent, partition.Size, image.totalSizeMB)
                im == [image EXCEPT !.ranges = Append(@, [start |-> image.startPercent,
                                                          end |-> endPercent])]
            IN \E e \in {"nil", "failed to create partition"} :
                 image' = IF e # "nil" THEN ImageSet(im, "returned", e)
                          ELSE [im EXCEPT !.startPercent = endPercent, !.i = @ + 1]
  /\ ImageOnly

LoopDevice == "/dev/loop0"
Detach == [call |-> "losetup -d", arg |-> 0]
Unmount(k) == [call |-> "umount", arg |-> k]

\* lines 192-206: the loop device, and the deferred detach
ImageLosetup ==
  /\ image.pc = "mkpart"
  /\ image.i > Len(image.Partitions)
  /\ \E ok \in BOOLEAN :
       IF ok
       THEN /\ image' = [ImageSet(image, "fill", "nil") EXCEPT
                           !.loopDevice = LoopDevice, !.i = 1, !.deferred = <<Detach>>]
            /\ loops' = [loops EXCEPT !.devs = Append(@, [dev |-> LoopDevice,
                                                          file |-> image.OutputPath,
                                                          user |-> "image",
                                                          detachable |-> TRUE])]
       ELSE /\ image' = ImageSet(image, "returned", "failed to setup loop device")
            /\ UNCHANGED loops
  /\ UNCHANGED <<running, mounts, cmd, config, proc, alive, mtab, host, op, log, cmds, faults,
                 pidNamespace, uidMappings, gidMappings, mutex, pc, started, spawned,
                 sandboxes, scratchDirs, build>>

\* mutant: the deferred calls run in the order in which they were deferred
DeferredOrderFIFO(deferred) == deferred

\* the deferred calls of a Go function run last in, first out
RECURSIVE DeferredOrder(_)
DeferredOrder(deferred) ==
  IF deferred = <<>> THEN <<>>
  ELSE <<deferred[Len(deferred)]>> \o DeferredOrder(SubSeq(deferred, 1, Len(deferred) - 1))

\* lines 203-206 and 262-266: what the deferred calls do to the mounts of the
\* image build and to the loop device
RECURSIVE RunDeferred(_, _, _)
RunDeferred(im, devs, calls) ==
  IF calls = <<>> THEN [image |-> [im EXCEPT !.deferred = <<>>], devs |-> devs]
  ELSE LET c == Head(calls)
           NotIt(k) == k # c.arg
           NotLoop(d) == d.dev # im.loopDevice
       IN IF c.call = "umount"
          THEN RunDeferred([im EXCEPT !.mounted = SelectSeq(@, NotIt),
                                      !.released = Append(@, c)], devs, Tail(calls))
          ELSE RunDeferred([im EXCEPT !.released = Append(@, c)],
                           SelectSeq(devs, NotLoop), Tail(calls))

\* a return of CreateRawImage after the loop device was attached
ImageReturn(im, e) ==
  LET r == RunDeferred(ImageSet(im, "returned", e), loops.devs, DeferredOrder(im.deferred)) IN
    /\ image' = r.image
    /\ loops' = [loops EXCEPT !.devs = r.devs]

FillOutcomes ==
  {"partition device did not appear", "failed to format partition",
   "failed to create mount point", "failed to mount partition", "no source directory",
   "failed to copy files", "nil"}

\* lines 209-301: one iteration of the loop that fills the partitions
ImageFill ==
  /\ image.pc = "fill"
  /\ image.i <= Len(image.Partitions)
  /\ LET partition == image.Partitions[image.i]
         im == [image EXCEPT !.mounted = Append(@, image.i),
                             !.deferred = Append(@, Unmount(image.i)), !.i = @ + 1]
     IN \E e \in FillOutcomes :
          IF e = "partition device did not appear" THEN ImageReturn(image, e)
          ELSE IF partition.Filesystem \notin {"vfat", "ext4"}
          THEN ImageReturn(image, "unsupported filesystem")
          ELSE IF e \in {"failed to format partition", "failed to create mount point",
                         "failed to mount partition"}
          THEN ImageReturn(image, e)
          ELSE IF e = "failed to copy files" THEN ImageReturn(im, e)
          ELSE image' = im /\ UNCHANGED loops
  /\ UNCHANGED <<running, mounts, cmd, config, proc, alive, mtab, host, op, log, cmds, faults,
                 pidNamespace, uidMappings, gidMappings, mutex, pc, started, spawned,
                 sandboxes, scratchDirs, build>>

\* lines 303-304
ImageDone ==
  /\ image.pc = "fill"
  /\ image.i > Len(image.Partitions)
  /\ ImageReturn(image, "nil")
  /\ UNCHANGED <<running, mounts, cmd, config, proc, alive, mtab, host, op, log, cmds, faults,
                 pidNamespace, uidMappings, gidMappings, mutex, pc, started, spawned,
                 sandboxes, scratchDirs, build>>

\* the sandbox of another build on the same host is started and stopped
ImageHostStart ==
  /\ ~running
  /\ started = <<>>
  /\ LET r == Start(World, DefaultSetupPlan) IN
       /\ CommitJail(r.w)
       /\ Track("Start", r)
       /\ op' = Result("Start", r.err, <<>>, FALSE)
  /\ UNCHANGED <<faults, mutex, pc, sandboxes, scratchDirs, build, image>>

ImageHostStop ==
  /\ running
  /\ LET r == Stop(World, DefaultStopPlan) IN
       /\ CommitJail(r.w)
       /\ op' = Result("Stop", r.err, <<>>, FALSE)
  /\ UNCHANGED <<faults, mutex, pc, started, sandboxes, scratchDirs, build, image>>

NextImage ==
  \/ ImageSize
  \/ ImageCreate
  \/ ImagePartition
  \/ ImageLosetup
  \/ ImageFill
  \/ ImageDone
  \/ ImageHostStart
  \/ ImageHostStop

\* a loop device of some other program, and one that a script left behind
OtherLoops ==
  << [dev |-> "/dev/loop7", file |-> "/var/backup.img", user |-> "other", detachable |-> TRUE],
     [dev |-> "/dev/loop6", file |-> "/srv/alpine-custom.img", user |-> "none",
      detachable |-> TRUE] >>

InitImage ==
  /\ running = FALSE
  /\ mounts = <<>>
  /\ cmd = "nil"
  /\ config = [MountPoints |-> NoMountPoints, TmpBase |-> FALSE]
  /\ host = Host(TRUE, TRUE, {"jail.yaml"})
  /\ proc = "none"
  /\ alive = 0
  /\ mtab = [p \in Targets |-> <<>>]
  /\ op = Result("NewJail", "nil", <<>>, FALSE)
  /\ log = <<>>
  /\ cmds = <<>>
  /\ faults = 0
  /\ pidNamespace = TRUE
  /\ uidMappings = DefaultUIDMappings
  /\ gidMappings = DefaultGIDMappings
  /\ mutex = NoHolder
  /\ pc = [c \in Callers |-> "out"]
  /\ started = <<>>
  /\ spawned = <<>>
  /\ sandboxes = InitSandboxes
  /\ scratchDirs = InitScratchDirs
  /\ build = NoBuild
  /\ \E list \in BOOLEAN : loops = [list |-> list, devs |-> OtherLoops]
  /\ \E ps \in PartitionLists, out \in OutputPaths :
       image = [NoImage EXCEPT !.pc = "config", !.Partitions = ps, !.OutputPath = out]

SpecImage == InitImage /\ [][NextImage]_vars

\* ------------------------------------------------------------------ claims
ErrAlreadyRunning == "jail is already running"
ErrNotRunning == "jail is not running"
ErrLaunch == "failed to start command"
ErrKill == "failed to kill process"

StartSucceeded == op.name = "Start" /\ op.err = "nil"
StartFailedInSetup ==
  op.name = "Start" /\ op.err \notin {"nil", ErrAlreadyRunning, ErrLaunch}

\* the state the controller can be asked about, and the host around it
ctlVars == <<running, mounts, cmd, config, proc, alive, mtab, host>>

\* positions in cmds of the umount attempts of the ledger pass
LedgerAttempts(c) == {a \in DOMAIN c : c[a].cmd = "umount" /\ c[a].idx > 0}

\* the successful mount and umount commands on a mount point
MountOk(c, p) == c.cmd = "mount" /\ c.path = p /\ c.ok /\ c.flag # "remount,ro,bind"
UmountDone(c, p) == c.cmd = "umount" /\ c.path = p /\ c.ok

\* C1: whenever Start() returns success the controller is running, an
\* IsRunning() call made next returns true, and the confinement root is
\* mounted (the overlay mount succeeded) and recorded in the ledger.
C1_StartSuccessRunningAndMounted ==
  /\ [](StartSucceeded =>
          /\ running
          /\ Len(mtab[ChrootDir]) > 0
          /\ Len(mounts) > 0 /\ ChrootDir \in Range(mounts)
          /\ \E i \in DOMAIN cmds :
               cmds[i] = [cmd |-> "mount", flag |-> "overlay", path |-> ChrootDir,
                          idx |-> 0, ok |-> TRUE])
  /\ [][(StartSucceeded /\ op'.name = "IsRunning") => op'.ret = TRUE]_vars

C1_Witness == StartSucceeded /\ running /\ Len(mounts) >= 7

\* C2 (as claimed): every Stop() made while running ends with the running
\* flag cleared and the ledger empty.
C2_StopEndsIdleWithEmptyLedger ==
  (op.name = "Stop" /\ op.err # ErrNotRunning) => (~running /\ mounts = <<>>)

\* C3 (as claimed): Stop() returns no error other than NotRunning, and a
\* Stop() made while running has run teardown and left the state Idle.
C3_StopOnlyFailsWithNotRunning ==
  op.name = "Stop" =>
    /\ op.err \in {"nil", ErrNotRunning}
    /\ op.err = "nil" =>
         (~running /\ \E j \in DOMAIN log : log[j].msg = "Starting cleanup process...")

\* C4 (as claimed): when mount setup fails, Start() returns with an empty
\* ledger, with no mount made by the call left mounted, and Idle.
C4_SetupFailureRolledBack ==
  StartFailedInSetup =>
    /\ ~running
    /\ mounts = <<>>
    /\ \A i \in DOMAIN cmds :
         (cmds[i].cmd = "mount" /\ cmds[i].ok) => Len(mtab[cmds[i].path]) = 0

\* C5: when all mounts succeed and the spawn fails, Start() has run teardown
\* over every mount of the call before it returns the launch error: the state
\* is Idle, the ledger is empty, there is no confined process, every mount
\* made by the call was processed by teardown, and the call leaves no more
\* mounts on a mount point than it found there unless an umount attempt on it
\* failed or /proc/mounts was unreadable.
C5_SpawnFailureRolledBack ==
  (op.name = "Start" /\ op.err = ErrLaunch) =>
    /\ ~running
    /\ mounts = <<>>
    /\ cmd # "started" /\ proc # "alive" /\ alive = 0
    /\ \A i \in DOMAIN cmds :
         MountOk(cmds[i], cmds[i].path) =>
           \E j \in DOMAIN log :
             log[j] = [msg |-> "Processing mount point", path |-> cmds[i].path]
    /\ \A p \in Targets :
         \/ Cardinality({i \in DOMAIN cmds : MountOk(cmds[i], p)})
              <= Cardinality({i \in DOMAIN cmds : UmountDone(cmds[i], p)})
         \/ \E i \in DOMAIN cmds :
              cmds[i].cmd = "umount" /\ cmds[i].path = p /\ ~cmds[i].ok
         \/ \E j \in DOMAIN log : log[j].msg = "Warning: cannot read /proc/mounts"

C5_Witness ==
  /\ op.name = "Start" /\ op.err = ErrLaunch
  /\ Cardinality({i \in DOMAIN cmds : cmds[i].cmd = "umount" /\ cmds[i].ok}) >= 7

\* C6: in the ledger pass of teardown the entries are processed in the exact
\* reverse of the ledger order: an attempt on entry i is never followed by an
\* attempt on an entry j > i; each attempt is made on the path the ledger holds
\* at that index; the entry processed last is the first one, the confinement
\* root; and dev/pts is attempted before the dev entry recorded just before it.
C6_ReverseOrderStep ==
  LET A == LedgerAttempts(cmds') IN
    /\ \A a, b \in A : a < b => cmds'[a].idx >= cmds'[b].idx
    /\ op'.name = "Stop" =>
         \A a \in A : /\ cmds'[a].idx \in 1..Len(mounts)
                      /\ cmds'[a].path = mounts[cmds'[a].idx]
    /\ \A a \in A : cmds'[a].idx = 1 => cmds'[a].path = ChrootDir
    /\ \A a, b \in A :
         (cmds'[a].path = Join(ChrootDir, <<"dev", "pts">>) /\ cmds'[b].idx = cmds'[a].idx - 1) =>
           (cmds'[b].path = Join(ChrootDir, <<"dev">>) /\ a < b)

C6_ReverseOrder == [][C6_ReverseOrderStep]_vars

C6_Witness ==
  /\ op.name = "Stop" /\ op.err = "nil"
  /\ Cardinality({cmds[a].idx : a \in LedgerAttempts(cmds)}) >= 7
  /\ \E a, b \in LedgerAttempts(cmds) : a < b /\ cmds[a].idx = cmds[b].idx

\* C7 (as claimed): Start() never returns success with a writable mount of
\* the template at the template path.
C7_NeverRunningWithWritableTemplate ==
  StartSucceeded => ~Writable(World, templateMount)

\* C8 (as claimed): no operation changes the contents of the base tree or of
\* the template tree on the host.
C8_TreesUntouched == [][host'.tpl = host.tpl /\ host'.base = host.base]_vars

\* C9: ExecuteCommand and ExecuteCommandWithOutput called while Idle return
\* the NotRunning error and no output, spawn no process, write nothing to the
\* log sink and leave ledger, state, configuration and host unchanged.
C9_ExecuteWhileIdle ==
  [][(op'.name \in {"ExecuteCommand", "ExecuteCommandWithOutput"} /\ ~running) =>
       /\ op'.err = ErrNotRunning
       /\ op'.out = <<>>
       /\ cmds' = <<>>
       /\ log' = <<>>
       /\ UNCHANGED ctlVars]_vars

C9_Witness ==
  op.name = "ExecuteCommandWithOutput" /\ op.err = ErrNotRunning /\ ~running /\ Len(mounts) > 0

\* C10: Start() called while Running returns AlreadyRunning, attempts no
\* mount and no spawn, and leaves ledger, process handle, running flag and
\* mounts as they were.
C10_StartWhileRunning ==
  [][(op'.name = "Start" /\ running) =>
       /\ op'.err = ErrAlreadyRunning
       /\ cmds' = <<>>
       /\ UNCHANGED ctlVars]_vars

C10_Witness == op.name = "Start" /\ op.err = ErrAlreadyRunning /\ running /\ proc = "alive"

\* a call of method m returns in this step (concurrent callers)
Returns(m) == \E c \in Callers : pc[c] = m /\ pc'[c] = "out"

\* the callers that are between Lock() and Unlock()
Inside == {c \in Callers : pc[c] \notin {"out", "Lock"}}

settings == <<pidNamespace, uidMappings, gidMappings>>

\* C11: a setter returns without error; called while Running it leaves the
\* three isolation settings as they were, called while Idle it stores its
\* argument in its own setting and leaves the other two; it changes nothing
\* else of the controller; and a getter returns the stored value.
C11_SettersStep ==
  /\ Returns("SetPidNamespace") =>
       /\ op'.err = "nil"
       /\ UNCHANGED <<ctlVars, uidMappings, gidMappings>>
       /\ pidNamespace' = IF running THEN pidNamespace ELSE op'.arg[1]
  /\ Returns("SetUIDMappings") =>
       /\ op'.err = "nil"
       /\ UNCHANGED <<ctlVars, pidNamespace, gidMappings>>
       /\ uidMappings' = IF running THEN uidMappings ELSE op'.arg[1]
  /\ Returns("SetGIDMappings") =>
       /\ op'.err = "nil"
       /\ UNCHANGED <<ctlVars, pidNamespace, uidMappings>>
       /\ gidMappings' = IF running THEN gidMappings ELSE op'.arg[1]
  /\ Returns("IsPidNamespaceEnabled") => (op'.ret = pidNamespace /\ UNCHANGED settings)
  /\ Returns("GetUIDMappings") => (op'.ret = uidMappings /\ UNCHANGED settings)
  /\ Returns("GetGIDMappings") => (op'.ret = gidMappings /\ UNCHANGED settings)

C11_SettersFrozenWhileRunning == [][C11_SettersStep]_vars

C11_Witness ==
  /\ op.name = "SetUIDMappings" /\ running
  /\ op.arg = << <<>> >> /\ uidMappings = DefaultUIDMappings
  /\ pidNamespace = FALSE /\ gidMappings = <<>>

\* C12: at most one caller is between Lock() and Unlock() at any moment, and
\* it is the holder of the mutex; so no body (teardown in Stop, mount setup in
\* Start, a command of an executor, a setter) runs while another one does.
C12_BodiesNeverOverlap ==
  /\ Cardinality(Inside) <= 1
  /\ \A c \in Inside : mutex = c
  /\ Inside = {} => mutex = NoHolder

C12_Witness ==
  \E c, d \in Callers :
    /\ running /\ pc[c] = "ExecuteCommand" /\ pc[d] = "Lock"
    /\ op.name = "Stop" /\ op.err = ErrKill

\* C13: under any interleaving of the callers at most one confined process
\* is alive, and a process is alive only while Running; a Start() that
\* returns success found the controller Idle with no process alive; and the
\* controller leaves Running only in a Stop() that returned success after
\* running teardown and reaping the process.
C13_OneRunningPeriod ==
  /\ [](alive <= 1 /\ (alive = 1 <=> running))
  /\ [][(Returns("Start") /\ op'.err = "nil") =>
          (~running /\ running' /\ alive = 0 /\ alive' = 1)]_vars
  /\ [][(running /\ ~running') =>
          /\ Returns("Stop") /\ op'.err = "nil" /\ alive' = 0 /\ mounts' = <<>>
          /\ \E j \in DOMAIN log' : log'[j].msg = "Cleanup completed"]_vars

C13_Witness ==
  /\ StartSucceeded /\ running /\ alive = 1
  /\ started # <<>> /\ faults > 0
  /\ \E c, d \in Callers : pc[c] = "Start" /\ pc[d] = "Lock"

\* C14 (as claimed): when a Start() succeeds on a controller that went through
\* a successful Start() and a successful Stop() before, the ledger it leaves
\* has the same contents as the ledger the previous successful Start() left.
C14_LedgerSameEveryCycle ==
  [][(op'.name = "Start" /\ op'.err = "nil" /\ ~running /\ started # <<>>) =>
       mounts' = started]_vars

\* C15 (as claimed): whenever the controller is Idle between two calls the
\* ledger is empty and no confined process started by it is alive.
C15_IdleMeansNothingAttached == ~running => (mounts = <<>> /\ alive = 0)

\* the paths of the mounts a call created, in the order it created them
IsNewMount(e) == e.cmd = "mount" /\ e.ok /\ e.flag # "remount,ro,bind"
RECURSIVE PathsOf(_)
PathsOf(c) == IF c = <<>> THEN <<>> ELSE <<Head(c).path>> \o PathsOf(Tail(c))
MountedPaths(c) == PathsOf(SelectSeq(c, IsNewMount))

\* C16 (as claimed): in mount setup the entries a Start() call appends to the
\* ledger are exactly the mounts it created, in the order it created them.
C16_LedgerIffMounted ==
  [][(op'.name = "Start" /\ ~running /\ op'.err # ErrLaunch) =>
       mounts' = mounts \o MountedPaths(cmds')]_vars

\* C17: when the command of ExecuteCommandWithOutput exits non-zero the call
\* returns an error together with what the command wrote to stdout and
\* stderr, and running flag, ledger, process, mounts and host are unchanged.
ErrCommand == "command failed"
ExitedNonZero(c) == \E i \in DOMAIN c : c[i].cmd = "chroot" /\ ~c[i].ok

C17_FailedCommandKeepsOutput ==
  [][(op'.name = "ExecuteCommandWithOutput" /\ ExitedNonZero(cmds')) =>
       /\ op'.err = ErrCommand
       /\ op'.out = <<"stdout", "stderr">>
       /\ running /\ running'
       /\ UNCHANGED ctlVars]_vars

C17_Witness ==
  /\ op.name = "ExecuteCommandWithOutput" /\ op.err = ErrCommand
  /\ op.out = <<"stdout", "stderr">> /\ running /\ Len(mounts) >= 7

\* the ledger indices at which the plain and the forced unmount failed and
\* the lazy unmount succeeded
Attempt(c, i, flag, ok) ==
  \E a \in DOMAIN c : c[a].cmd = "umount" /\ c[a].idx = i /\ c[a].flag = flag /\ c[a].ok = ok
LazyRescued(c) ==
  {i \in {c[a].idx : a \in LedgerAttempts(c)} :
     Attempt(c, i, "", FALSE) /\ Attempt(c, i, "-f", FALSE) /\ Attempt(c, i, "-l", TRUE)}
Logged(l, m, p) == \E j \in DOMAIN l : l[j] = [msg |-> m, path |-> p]

\* C18: when for a ledger entry the plain and the forced unmount fail and
\* the lazy one succeeds, Stop() returns success, both failures are written
\* to the log for that entry, every ledger entry gets its mounted-check, and
\* the ledger is empty and the state Idle afterwards.
C18_LazyRescueStep ==
  (op'.name = "Stop" /\ running /\ LazyRescued(cmds') # {}) =>
    /\ op'.err = "nil"
    /\ ~running' /\ mounts' = <<>>
    /\ \A i \in LazyRescued(cmds') :
         /\ i \in 1..Len(mounts)
         /\ Logged(log', "Warning: normal unmount failed", mounts[i])
         /\ Logged(log', "Warning: forced unmount failed", mounts[i])
    /\ Cardinality({j \in DOMAIN log' : log'[j].msg = "Processing mount point"}) = Len(mounts)
    /\ \A i \in 1..Len(mounts) : Logged(log', "Processing mount point", mounts[i])

C18_LazyRescue == [][C18_LazyRescueStep]_vars

C18_Witness ==
  /\ op.name = "Stop" /\ op.err = "nil" /\ mounts = <<>> /\ ~running
  /\ \E i \in LazyRescued(cmds) :
       /\ i > 1
       /\ \E a \in LedgerAttempts(cmds) : cmds[a].idx < i /\ cmds[a].ok
       /\ \E a \in LedgerAttempts(cmds) : cmds[a].idx > i /\ cmds[a].ok

\* C19: when the base tree or the template tree does not exist, Start()
\* returns the path error of that tree and has done nothing else: no
\* directory created, no command run, nothing logged, ledger empty, Idle.
ErrNoBuilder == "builder path does not exist"
ErrNoTemplate == "template path does not exist"

C19_MissingTreeStep ==
  (op'.name = "Start" /\ ~running /\ (~host.builder \/ ~host.template)) =>
    /\ op'.err = IF ~host.builder THEN ErrNoBuilder ELSE ErrNoTemplate
    /\ cmds' = <<>> /\ log' = <<>>
    /\ mounts' = <<>> /\ ~running'
    /\ ~host'.chroot /\ ~host'.scratch
    /\ UNCHANGED ctlVars

C19_MissingTree == [][C19_MissingTreeStep]_vars

C19_Witness ==
  /\ op.name = "Start" /\ op.err = ErrNoBuilder
  /\ ~host.builder /\ ~host.chroot /\ mounts = <<>> /\ ~running

\* C20 (as claimed): a Start() succeeds only if the confinement root, the
\* base tree and the template tree are non-empty paths, pairwise distinct,
\* that all exist on disk when Start() is called.
C20_PathsCheckedBeforeRunning ==
  [][(op'.name = "Start" /\ op'.err = "nil") =>
       /\ ChrootDir # NoPath /\ BuilderPath # NoPath /\ TemplatePath # NoPath
       /\ ChrootDir # BuilderPath /\ ChrootDir # TemplatePath /\ BuilderPath # TemplatePath
       /\ host.chroot /\ host.builder /\ host.template]_vars

\* C21 (as claimed): two controllers that are Running at the same time use
\* different scratch directories, and the scratch directory that backs a
\* mounted root still exists: no setup has removed it.
C21_IndependentScratch ==
  /\ \A a, b \in Jails :
       (a # b /\ sandboxes[a].running /\ sandboxes[b].running) =>
         tmpMountBase(a) # tmpMountBase(b)
  /\ \A j \in Jails : \A k \in DOMAIN sandboxes[j].root :
       sandboxes[j].root[k] \in scratchDirs.live

Executors == {"ExecuteCommand", "ExecuteCommandWithOutput"}
UserNamespace == Len(uidMappings) > 0 \/ Len(gidMappings) > 0

\* C22 (as claimed): the process an executor launches is not a chroot
\* invocation from the host, and it is in the namespaces of the confined
\* process: a new PID namespace and a user namespace as stored at Start().
C22_ExecutorsReenterConfinement ==
  op.name \in Executors =>
    \A k \in DOMAIN spawned :
      /\ spawned[k].program # "chroot"
      /\ spawned[k].attr.NewPid = pidNamespace
      /\ spawned[k].attr.NewUser = UserNamespace

\* C23 (as claimed): when the build command has returned, on whatever path,
\* the controller is not Running.
C23_BuildEndsIdle == build.pc = "returned" => ~running

\* the ledger of a setup in which every mount succeeded
RECURSIVE TargetsOf(_)
TargetsOf(ms) ==
  IF ms = <<>> THEN <<>> ELSE <<Join(ChrootDir, Head(ms).Destination)>> \o TargetsOf(Tail(ms))
ExpectedLedger(mountPoints) ==
  << ChrootDir, Join(ChrootDir, <<"proc">>), Join(ChrootDir, <<"sys">>),
     Join(ChrootDir, <<"dev">>), Join(ChrootDir, <<"dev", "pts">>),
     templateMount, scriptsMount >> \o TargetsOf(mountPoints)

\* C24 (as claimed): after a Start() that succeeded the ledger is exactly the
\* confinement root, proc, sys, dev, dev/pts, template, scripts and then the
\* targets of the extra mount specs in configuration order.
C24_LedgerExactlyInOrder == StartSucceeded => mounts = ExpectedLedger(config.MountPoints)

\* the unmount attempts of the ledger pass on the entry at index i, in order
LedgerIndices(c) == {c[a].idx : a \in LedgerAttempts(c)}
AttemptsAt(c, i) ==
  LET AtIndex(e) == e.cmd = "umount" /\ e.idx = i IN SelectSeq(c, AtIndex)
EscalationOrder == <<"", "-f", "-l">>

\* C25: on a ledger entry teardown makes at most three unmount attempts, in
\* the order plain, forced, lazy; an attempt is followed by the next one only
\* if it failed, so a successful attempt is the last one on that entry.
C25_EscalationOrder ==
  \A i \in LedgerIndices(cmds) :
    LET A == AttemptsAt(cmds, i) IN
      /\ Len(A) \in 1..3
      /\ \A k \in 1..Len(A) :
           /\ A[k].flag = EscalationOrder[k]
           /\ k < Len(A) => ~A[k].ok

C25_Witness ==
  /\ op.name = "Stop" /\ op.err = "nil"
  /\ \E i \in LedgerIndices(cmds) :
       Len(AttemptsAt(cmds, i)) = 2 /\ AttemptsAt(cmds, i)[2].ok
  /\ \E i \in LedgerIndices(cmds) :
       Len(AttemptsAt(cmds, i)) = 1 /\ AttemptsAt(cmds, i)[1].ok

\* the ledger indices on which all three unmount attempts failed
Stuck(c) ==
  {i \in LedgerIndices(c) :
     Attempt(c, i, "", FALSE) /\ Attempt(c, i, "-f", FALSE) /\ Attempt(c, i, "-l", FALSE)}
CountLogged(l, m) == Cardinality({j \in DOMAIN l : l[j].msg = m})

\* C26: when all three unmount attempts fail on a ledger entry, teardown
\* still runs to its end and Stop() returns success: every ledger entry gets
\* its mounted-check, every entry is either skipped as not mounted or gets
\* its unmount attempts, the ledger is cleared and the state is Idle.
C26_StuckMountStep ==
  (op'.name = "Stop" /\ running /\ Stuck(cmds') # {}) =>
    /\ op'.err = "nil" /\ ~running' /\ mounts' = <<>>
    /\ CountLogged(log', "Processing mount point") = Len(mounts)
    /\ Cardinality(LedgerIndices(cmds')) + CountLogged(log', "is not mounted, skipping")
         = Len(mounts)
    /\ \A i \in 1..Len(mounts) :
         (mounts[i] \notin {mounts[k] : k \in Stuck(cmds')} /\ Len(mtab[mounts[i]]) > 0) =>
           \E k \in LedgerIndices(cmds') : mounts[k] = mounts[i]
    /\ Logged(log', "Cleanup completed", NoPath)

C26_StuckMountDoesNotStopTeardown == [][C26_StuckMountStep]_vars

C26_Witness ==
  /\ op.name = "Stop" /\ op.err = "nil" /\ ~running /\ mounts = <<>>
  /\ \E i \in Stuck(cmds) :
       /\ \E k \in LedgerIndices(cmds) : k < i /\ Attempt(cmds, k, "", TRUE)
       /\ \E k \in LedgerIndices(cmds) : k > i /\ Attempt(cmds, k, "", TRUE)

\* C27: a ledger entry whose path is not mounted when teardown starts gets
\* no unmount command in the ledger pass: it is logged as skipped, and the
\* entries after it are still processed.
C27_UnmountedStep ==
  (op'.name = "Stop" /\ running /\ op'.err = "nil") =>
    \A i \in 1..Len(mounts) :
      Len(mtab[mounts[i]]) = 0 =>
        /\ AttemptsAt(cmds', i) = <<>>
        /\ \A a \in DOMAIN cmds' : cmds'[a].cmd = "umount" => cmds'[a].path # mounts[i]
        /\ Logged(log', "is not mounted, skipping", mounts[i])
        /\ CountLogged(log', "Processing mount point") = Len(mounts)

C27_UnmountedEntrySkipped == [][C27_UnmountedStep]_vars

C27_Witness ==
  /\ op.name = "Stop" /\ op.err = "nil"
  /\ Logged(log, "is not mounted, skipping", Join(ChrootDir, <<"sys">>))
  /\ \E k \in LedgerIndices(cmds) : k < 3 /\ Attempt(cmds, k, "", TRUE)
  /\ \E k \in LedgerIndices(cmds) : k > 3 /\ Attempt(cmds, k, "", TRUE)

\* the second pass of teardown: the unmount commands that carry no ledger index
SecondPass(c) == {a \in DOMAIN c : c[a].cmd = "umount" /\ c[a].idx = 0}
Position(p) == CHOOSE k \in DOMAIN possibleMounts : possibleMounts[k] = p
\* the mounts left on path p when the ledger pass is over
LeftAfterLedgerPass(p) ==
  Len(mtab[p]) - Cardinality({a \in LedgerAttempts(cmds') : cmds'[a].path = p /\ cmds'[a].ok})
SecondPassAttempt(c, p, flag, ok) ==
  \E a \in SecondPass(c) : c[a].path = p /\ c[a].flag = flag /\ c[a].ok = ok

\* the order of the second pass: after the ledger pass, over the fixed targets
\* only, in the order dev/pts, dev, proc, sys, template, scripts, root, forced
\* before lazy
SecondPassOrder(c) ==
  /\ \A a \in SecondPass(c), b \in LedgerAttempts(c) : b < a
  /\ \A a \in SecondPass(c) : c[a].path \in Range(possibleMounts) /\ c[a].flag \in {"-f", "-l"}
  /\ \A a, b \in SecondPass(c) :
       a < b => \/ Position(c[a].path) < Position(c[b].path)
                \/ (c[a].path = c[b].path /\ c[a].flag = "-f" /\ c[b].flag = "-l")

\* what the second pass does to a fixed target that needs it, and the result
SecondPassOn(p) ==
  /\ SecondPassAttempt(cmds', p, "-f", TRUE) \/ SecondPassAttempt(cmds', p, "-f", FALSE)
  /\ SecondPassAttempt(cmds', p, "-l", TRUE) \/ SecondPassAttempt(cmds', p, "-l", FALSE)
  /\ (SecondPassAttempt(cmds', p, "-f", TRUE) /\ LeftAfterLedgerPass(p) = 1) => Len(mtab'[p]) = 0
  /\ (SecondPassAttempt(cmds', p, "-f", TRUE) /\ SecondPassAttempt(cmds', p, "-l", TRUE)
        /\ LeftAfterLedgerPass(p) = 2) => Len(mtab'[p]) = 0

TeardownInStop == op'.name = "Stop" /\ running /\ op'.err = "nil"

C29_TeardownClearsLedger ==
  Logged(log, "Starting cleanup process...", NoPath) => mounts = <<>>

C29_Witness ==
  /\ op.name = "Stop" /\ op.err = "nil" /\ mounts = <<>>
  /\ Stuck(cmds) # {}
  /\ \E p \in Targets : Len(mtab[p]) > 0

\* C30: a controller starts with the PID namespace on and one mapping of id
\* 0 to the invoking user and group; and the process Start() launches is
\* /bin/ash with the chroot at the confinement root, a new PID namespace
\* exactly if the toggle is on, a user namespace exactly if a mapping list is
\* non-empty, and mapping tables equal to the stored lists.
C30_SpawnIsolation ==
  /\ op.name = "NewJail" =>
       /\ pidNamespace
       /\ uidMappings = << [ContainerID |-> 0, HostID |-> "getuid", Size |-> 1] >>
       /\ gidMappings = << [ContainerID |-> 0, HostID |-> "getgid", Size |-> 1] >>
  /\ (op.name = "Start" /\ spawned # <<>>) =>
       spawned = << [program |-> "/bin/ash",
                     attr |-> [Chroot |-> ChrootDir,
                               NewPid |-> pidNamespace,
                               NewUser |-> UserNamespace,
                               UidMappings |-> uidMappings,
                               GidMappings |-> gidMappings]] >>
  /\ StartSucceeded => spawned # <<>>

C30_Witness ==
  /\ StartSucceeded /\ running
  /\ ~pidNamespace /\ uidMappings = <<>> /\ gidMappings = DefaultGIDMappings
  /\ spawned[1].attr.NewUser /\ ~spawned[1].attr.NewPid

\* what a command wrote, as it appears in the log
Streams == {"stdout", "stderr"}
Forwarded(l) ==
  LET IsOutput(e) == e.msg \in Streams
      out == SelectSeq(l, IsOutput)
  IN [k \in DOMAIN out |-> out[k].msg]
Produced(err) == IF err = ErrCommand THEN <<"stdout", "stderr">> ELSE <<"stdout">>

\* C31: ExecuteCommand forwards what the command writes to the log writer
\* and returns no bytes, whether the command succeeds or fails;
\* ExecuteCommandWithOutput returns stdout and stderr as one sequence and
\* forwards nothing of it to the log writer.
C31_OutputModesDisjoint ==
  /\ (op.name = "ExecuteCommand" /\ op.err # ErrNotRunning) =>
       op.out = <<>> /\ Forwarded(log) = Produced(op.err)
  /\ (op.name = "ExecuteCommandWithOutput" /\ op.err # ErrNotRunning) =>
       op.out = Produced(op.err) /\ Forwarded(log) = <<>>

C31_Witness ==
  /\ op.name = "ExecuteCommand" /\ op.err = ErrCommand
  /\ op.out = <<>> /\ Forwarded(log) = <<"stdout", "stderr">>

\* the devices a teardown tried to detach
Detached(c) == {c[a].path : a \in {b \in DOMAIN c : c[b].cmd = "losetup"}}
\* a device that is in use: by the image build that attached it and has not
\* returned, or by another program
InUse(dev) ==
  \/ dev = <<LoopDevice>> /\ image.pc = "fill"
  \/ \E k \in DOMAIN OtherLoops : OtherLoops[k].dev = dev[1] /\ OtherLoops[k].user # "none"
ToolNamedDevices ==
  {<<OtherLoops[k].dev>> : k \in {j \in DOMAIN OtherLoops : ContainsToolName(OtherLoops[j])}}
    \cup (IF image.OutputPath \in ToolNamedFiles THEN {<<LoopDevice>>} ELSE {})

\* C32 (as claimed): the sweep of teardown tries to detach only loop devices
\* whose listing line names an image of the tool, and of those only orphaned
\* ones: never a device that an image build in progress or another program
\* is using; and a listing that fails does not stop teardown.
C32_SweepOnlyOrphans ==
  /\ \A dev \in Detached(cmds) : dev \in ToolNamedDevices /\ ~InUse(dev)
  /\ (op.name = "Stop" /\ Logged(log, "Warning: could not list loop devices", NoPath)) =>
       op.err = "nil" /\ Logged(log, "Cleanup completed", NoPath)

\* C33: the build command runs the scripts in list order, each one only
\* after the one before it succeeded; after the first script that fails no
\* other script is run and the build returns an error.
C33_ScriptsInOrderUntilFailure ==
  /\ Len(build.ran) <= Len(build.scripts)
  /\ \A k \in DOMAIN build.ran : build.ran[k] = build.scripts[k]
  /\ build.pc = "loop" => Len(build.ran) = build.i - 1 /\ build.err = "nil"
  /\ (op.name \in Executors /\ op.err = ErrCommand) =>
       /\ build.pc \in {"debug", "cleanup"}
       /\ build.err = "error executing script"
       /\ Len(build.ran) = build.i
  /\ (build.pc = "returned" /\ build.err = "nil") => build.ran = build.scripts
  /\ (build.pc = "returned" /\ build.err = "error executing script") => Len(build.ran) = build.i

C33_Witness ==
  /\ build.pc = "returned" /\ build.err = "error executing script"
  /\ Len(build.scripts) = 2 /\ build.ran = <<1>>

\* C38: the build command copies the artifacts out only after every script
\* succeeded and before Stop() is called: the controller is Running and the
\* root is mounted when the copy is made, and Stop() comes after it.
C38_CopyBeforeStop ==
  /\ build.pc = "copy" =>
       running /\ Len(mtab[ChrootDir]) > 0 /\ build.ran = build.scripts /\ build.err = "nil"
  /\ build.copied => build.ran = build.scripts /\ build.pc \in {"cleanup", "returned"}
  /\ (build.copied /\ build.pc = "cleanup") => running /\ Len(mtab[ChrootDir]) > 0
  /\ op.name = "Stop" => build.pc = "returned"

C38_Witness ==
  /\ build.copied /\ build.pc = "returned" /\ Len(build.scripts) = 2
  /\ op.name = "Stop" /\ op.err = "nil" /\ ~running

\* the number of megabytes that a size of n units is
Megabytes(n, suffix) ==
  IF ToUpper(suffix) \in {<<"G">>, <<"G", "B">>, <<"G", "I", "B">>} THEN n * 1024 ELSE n

\* C34 (as claimed): ParseSizeToMB of the number n followed by M, MB or MiB
\* is n, and followed by G, GB or GiB is n*1024, in either case of letters.
C34_ParseSizeToMB ==
  \A k \in DOMAIN image.parsed :
    image.Partitions[k].Size # Star =>
      image.parsed[k] = Megabytes(image.Partitions[k].n, image.Partitions[k].suffix)

\* C35 (as claimed): teardown removes the parent directory of the
\* confinement root only when nothing is mounted under the root any more.
C35_RemoveOnlyWhenUnmounted ==
  Logged(log, "Removing temporary directory", ChrootDir) =>
    \A p \in Targets : Len(mtab[p]) = 0

\* C36 (as claimed): no path is in the ledger twice.
C36_LedgerWithoutDuplicates ==
  \A a, b \in DOMAIN mounts : a # b => mounts[a] # mounts[b]

\* C37: the running flag follows Start() and Stop() only. When the confined
\* shell has exited on its own the controller is still Running, IsRunning()
\* returns true and the executors run their command; the flag is cleared
\* only by a Stop() that returns success.
C37_RunningIgnoresProcess ==
  /\ proc = "exited" => running
  /\ op.name = "ProcExit" => running
  /\ op.name = "IsRunning" => op.ret = running
  /\ (op.name \in Executors /\ running) =>
       /\ op.err # ErrNotRunning
       /\ \E a \in DOMAIN cmds : cmds[a].cmd = "chroot"
  /\ (op.name = "Stop" /\ op.err \notin {"nil", ErrNotRunning}) => running

C37_Witness ==
  /\ proc = "exited" /\ running
  /\ op.name = "ExecuteCommand" /\ op.err = "nil"
  /\ \E a \in DOMAIN cmds : cmds[a].cmd = "chroot" /\ cmds[a].ok

\* C39: when CreateRawImage has returned after attaching the loop device,
\* on any path, the partitions it mounted were unmounted last-mounted
\* first and the loop device was detached after all of them; nothing stays
\* mounted or attached without a release attempt. Before the loop device is
\* attached nothing is released.
C39_ReleaseInReverse ==
  /\ (image.pc = "returned" /\ image.loopDevice # "") =>
       LET n == image.i - 1 IN
         /\ image.released = [k \in 1..n |-> Unmount(n - k + 1)] \o <<Detach>>
         /\ image.mounted = <<>> /\ image.deferred = <<>>
         /\ \A d \in DOMAIN loops.devs : loops.devs[d].dev # LoopDevice
  /\ image.pc = "fill" =>
       /\ image.mounted = [k \in 1..(image.i - 1) |-> k]
       /\ image.deferred = <<Detach>> \o [k \in 1..(image.i - 1) |-> Unmount(k)]
  /\ image.loopDevice = "" => image.released = <<>> /\ image.mounted = <<>>

C39_Witness ==
  /\ image.pc = "returned" /\ image.err = "failed to copy files"
  /\ image.released = <<Unmount(2), Unmount(1), Detach>>

\* C40: the percent ranges of the partitions are contiguous: the first
\* starts at 0, each next one starts where the one before ended, every end
\* is at least its start and at most 100, a partition of size "*" ends at
\* 100; and with an image size computed by the build command the division
\* is never by zero.
C40_PercentRanges ==
  /\ \A k \in DOMAIN image.ranges :
       /\ image.ranges[k].start = (IF k = 1 THEN 0 ELSE image.ranges[k - 1].end)
       /\ image.ranges[k].start <= image.ranges[k].end
       /\ image.ranges[k].end <= 100
       /\ image.Partitions[k].Size = Star => image.ranges[k].end = 100
  /\ image.pc # "panic"
  /\ image.pc \in {"mkpart", "fill"} => image.totalSizeMB > 0

C40_Witness ==
  /\ Len(image.ranges) = 2
  /\ image.ranges[1].start = 0 /\ image.ranges[1].end > 0 /\ image.ranges[1].end < 100
  /\ image.Partitions[2].Size = Star /\ image.ranges[2].end = 100

====
